---- MODULE Spec2Model ----
(***************************************************************************)
(* Signal-generation pipeline of the BC4 backend (src/backend/src/signals): *)
(* BTCFilter, SignalDetector, SignalScorer, ConfluenceDetector and the      *)
(* SignalEngine scan that orchestrates them.                                *)
(*                                                                          *)
(* Numbers.  The code computes with floats; the model computes the same     *)
(* expressions exactly, in fixed point:                                     *)
(*   - multipliers are carried in thousandths while they are computed and   *)
(*     in hundredths once round(x, 2) has been applied;                     *)
(*   - scores are carried in thousandths of a point (final_score) and in    *)
(*     hundredths once rounded;                                             *)
(*   - prices, levels and ATR are integers in price ticks; a relative test  *)
(*     such as  abs(p - l) / l <= 0.01  is cross-multiplied.                *)
(* A missing value (None, NaN) is the sentinel NaN.                         *)
(***************************************************************************)
EXTENDS Integers, Sequences, FiniteSets, TLC

VARIABLES
    pc,           \* position of scan_for_signals: "idle", "symbols", "done"
    btc_context,  \* the BTC context of the scan in progress
    remaining,    \* number of symbols of the list still to visit
    scanned,      \* symbols the loop of the scan in progress has visited,
                  \* each with whether it was skipped for empty data
    signals,      \* the local list `signals` of scan_for_signals
    result,       \* the list scan_for_signals returned
    failures,     \* positions in the symbol list where _create_signal raised
                  \* and the exception was logged
    key_levels_cache, \* SignalEngine._key_levels_cache
    now,          \* the clock datetime.utcnow() reads, in seconds
    fetch,        \* the run of main(): the download of the candles and their storage
    fn,           \* pure-function specifications: the function applied
    args,         \* ... its arguments
    ret           \* ... its result

vars == <<pc, btc_context, remaining, scanned, signals, result, failures, key_levels_cache, now, fetch, fn, args, ret>>
scanVars == <<pc, btc_context, remaining, scanned, signals, result, failures, key_levels_cache, now, fetch>>
callVars == <<fn, args, ret>>

\* None / NaN: an absent level or indicator value.
NaN == 0 - 1

Max(a, b) == IF a >= b THEN a ELSE b
Min(a, b) == IF a <= b THEN a ELSE b
Abs(a) == IF a >= 0 THEN a ELSE 0 - a

\* round(x, 2) of a value in thousandths, giving hundredths (ties to even).
Round2(x) == LET q == x \div 10
                 r == x % 10
             IN  IF r < 5 THEN q
                 ELSE IF r > 5 THEN q + 1
                 ELSE IF q % 2 = 0 THEN q ELSE q + 1

(***************************************************************************)
(* BTCFilter                                                                *)
(***************************************************************************)
TrendLabels == {"ALCISTA_FUERTE", "ALCISTA", "BAJISTA_FUERTE", "BAJISTA", "LATERAL", "INESTABLE"}
Volatilities == {"ALTA", "NORMAL", "BAJA"}
SessionQualities == {"ALTA", "MEDIA", "BAJA"}

\* The substring tests of the code, over the trend labels.
HasAlcista(trend) == trend \in {"ALCISTA_FUERTE", "ALCISTA"}
HasBajista(trend) == trend \in {"BAJISTA_FUERTE", "BAJISTA"}
HasFuerte(trend) == trend \in {"ALCISTA_FUERTE", "BAJISTA_FUERTE"}

\* Multipliers before the volatility scaling, in thousandths.
BaseMultipliers(trend) ==
    IF HasAlcista(trend)
    THEN [long |-> IF HasFuerte(trend) THEN 1200 ELSE 1000,
          short |-> IF HasFuerte(trend) THEN 300 ELSE 400]
    ELSE IF HasBajista(trend)
    THEN [long |-> IF HasFuerte(trend) THEN 400 ELSE 500,
          short |-> IF HasFuerte(trend) THEN 1200 ELSE 1000]
    ELSE IF trend = "LATERAL"
    THEN [long |-> 700, short |-> 700]
    ELSE [long |-> 200, short |-> 200]

\* A scaling whose ALTA branch lost its floor of 0.2.
Mutant_ScaleByVolatility(m, volatility) ==
    IF volatility = "ALTA" THEN m \div 2
    ELSE IF volatility = "BAJA" THEN Min(1200, (m * 11) \div 10)
    ELSE m

\* max(0.2, m * 0.5) under ALTA, min(1.2, m * 1.1) under BAJA; thousandths.
ScaleByVolatility(m, volatility) ==
    IF volatility = "ALTA" THEN Max(200, m \div 2)
    ELSE IF volatility = "BAJA" THEN Min(1200, (m * 11) \div 10)
    ELSE m

\* BTCFilter._calculate_multipliers: the result is in hundredths.
_calculate_multipliers(trend, volatility) ==
    LET base == BaseMultipliers(trend)
    IN  [long |-> Round2(ScaleByVolatility(base.long, volatility)),
         short |-> Round2(ScaleByVolatility(base.short, volatility))]

\* A gate that forgets the LATERAL rule.
Mutant_should_trade_decision(trend, volatility, strength) ==
    ~ (trend = "INESTABLE" \/ (volatility = "ALTA" /\ strength < 35))

\* BTCFilter._should_trade_decision.
_should_trade_decision(trend, volatility, strength) ==
    IF trend = "INESTABLE" THEN FALSE
    ELSE IF volatility = "ALTA" /\ strength < 35 THEN FALSE
    ELSE IF trend = "LATERAL" /\ strength < 20 THEN FALSE
    ELSE TRUE

\* BTCFilter._get_session_quality, from the UTC hour.
_get_session_quality(hour_utc) ==
    IF 13 <= hour_utc /\ hour_utc < 17 THEN "ALTA"
    ELSE IF 7 <= hour_utc /\ hour_utc < 13 THEN "MEDIA"
    ELSE "BAJA"

\* trend_strength is the ADX clipped to [0, 100].
MaxStrength == 100

(***************************************************************************)
(* MarketStructure.determine_trend                                          *)
(*                                                                          *)
(* t.highs / t.lows are the swing highs / lows of the last `lookback` rows  *)
(* (oldest first), t.close, t.ema20, t.ema50 and t.adx the last row.        *)
(***************************************************************************)
Last(seq) == seq[Len(seq)]

SwingStructure(highs, lows) ==
    IF Len(highs) >= 2 /\ Len(lows) >= 2
    THEN LET h0 == highs[Len(highs) - 1]
             h1 == highs[Len(highs)]
             l0 == lows[Len(lows) - 1]
             l1 == lows[Len(lows)]
         IN  IF h0 < h1 /\ l0 < l1 THEN "HH/HL"
             ELSE IF h0 > h1 /\ l0 > l1 THEN "LH/LL"
             ELSE "MIXED"
    ELSE "MIXED"

\* determine_trend calling the trend LATERAL below an ADX of 25
Mutant_determine_trend(t) ==
    LET structure == SwingStructure(t.highs, t.lows)
        bull_alignment == t.close > t.ema20 /\ t.ema20 > t.ema50
        bear_alignment == t.close < t.ema20 /\ t.ema20 < t.ema50
        trend == IF t.adx < 25 THEN "LATERAL"
                 ELSE IF structure = "HH/HL" /\ bull_alignment THEN "ALCISTA_FUERTE"
                 ELSE IF structure = "LH/LL" /\ bear_alignment THEN "BAJISTA_FUERTE"
                 ELSE "INESTABLE"
    IN  [trend |-> trend,
         trend_strength |-> Max(0, Min(t.adx, MaxStrength)),
         structure |-> structure,
         ema_alignment |-> (bull_alignment \/ bear_alignment),
         adx_value |-> t.adx]

determine_trend(t) ==
    LET structure == SwingStructure(t.highs, t.lows)
        bull_alignment == t.close > t.ema20 /\ t.ema20 > t.ema50
        bear_alignment == t.close < t.ema20 /\ t.ema20 < t.ema50
        trend == IF t.adx < 20 THEN "LATERAL"
                 ELSE IF structure = "HH/HL" /\ bull_alignment /\ t.adx >= 25 THEN "ALCISTA_FUERTE"
                 ELSE IF structure = "LH/LL" /\ bear_alignment /\ t.adx >= 25 THEN "BAJISTA_FUERTE"
                 ELSE "INESTABLE"
    IN  [trend |-> trend,
         trend_strength |-> Max(0, Min(t.adx, MaxStrength)),
         structure |-> structure,
         ema_alignment |-> (bull_alignment \/ bear_alignment),
         adx_value |-> t.adx]

(***************************************************************************)
(* OrderFlowAnalyzer.analyze_volume_pressure                                *)
(*                                                                          *)
(* volume: the volumes of the 1h frame (its last rows, oldest first);       *)
(* cvd: the aligned CVD series, each entry [nan, v].  The normalized change *)
(* cvd_change / avg_volume * 100 is compared after multiplying through by   *)
(* the sum of the volumes of the valid rows.                                *)
(***************************************************************************)
Lookback == 4

TailN(seq, n) == IF Len(seq) <= n THEN seq ELSE SubSeq(seq, Len(seq) - n + 1, Len(seq))

RECURSIVE SumAt(_, _)
SumAt(seq, idx) ==
    IF idx = {} THEN 0
    ELSE LET i == CHOOSE j \in idx : TRUE
         IN  seq[i] + SumAt(seq, idx \ {i})

DefaultPressure == [pressure |-> "NEUTRAL", score |-> 0, cvd_change |-> 0]

\* analyze_volume_pressure reading a missing CVD value as 0
\* (np.nan_to_num) instead of masking it.
Mutant_analyze_volume_pressure(volume, cvd, lookback) ==
    LET min_len == Min(Len(volume), Len(cvd))
    IN  IF Len(volume) = 0 \/ Len(cvd) = 0 \/ min_len < Max(lookback, 2) THEN DefaultPressure
        ELSE
        LET recent_volume == TailN(TailN(volume, min_len), lookback)
            recent_cvd == TailN(TailN(cvd, min_len), lookback)
            k == Len(recent_cvd)
            cvd_change == recent_cvd[k].v - recent_cvd[1].v
            sum_volume == SumAt(recent_volume, 1..Len(recent_volume))
            buying == sum_volume > 0 /\ cvd_change * 100 * k > 30 * sum_volume
            selling == sum_volume > 0 /\ cvd_change * 100 * k < (0 - 30) * sum_volume
        IN  [pressure |-> IF buying THEN "BUYING" ELSE IF selling THEN "SELLING" ELSE "NEUTRAL",
             score |-> IF buying \/ selling THEN 20 ELSE 0,
             cvd_change |-> cvd_change]

analyze_volume_pressure(volume, cvd, lookback) ==
    LET min_len == Min(Len(volume), Len(cvd))
    IN  IF Len(volume) = 0 \/ Len(cvd) = 0 \/ min_len < Max(lookback, 2) THEN DefaultPressure
        ELSE
        LET recent_volume == TailN(TailN(volume, min_len), lookback)
            recent_cvd == TailN(TailN(cvd, min_len), lookback)
            valid == {i \in 1..Len(recent_cvd) : ~ recent_cvd[i].nan}
        IN  IF Cardinality(valid) < 2 THEN DefaultPressure
            ELSE
            LET first == CHOOSE i \in valid : \A j \in valid : i <= j
                last == CHOOSE i \in valid : \A j \in valid : i >= j
                k == Cardinality(valid)
                cvd_change == recent_cvd[last].v - recent_cvd[first].v
                sum_volume == SumAt(recent_volume, valid)
                \* cvd_change_normalized * sum_volume / (100 * k); 0 when avg_volume <= 0
                buying == sum_volume > 0 /\ cvd_change * 100 * k > 30 * sum_volume
                selling == sum_volume > 0 /\ cvd_change * 100 * k < (0 - 30) * sum_volume
                neutral_score == IF sum_volume > 0
                                 THEN Min(20, (Abs(cvd_change) * 100 * k) \div (5 * sum_volume))
                                 ELSE 0
                score == IF buying \/ selling THEN 20 ELSE neutral_score
                volume_bonus == sum_volume > 0 /\ recent_volume[last] * k * 10 > 13 * sum_volume
            IN  [pressure |-> IF buying THEN "BUYING" ELSE IF selling THEN "SELLING" ELSE "NEUTRAL",
                 score |-> Min(20, IF volume_bonus THEN Min(20, score + 5) ELSE score),
                 cvd_change |-> cvd_change]

(***************************************************************************)
(* OrderFlowAnalyzer.detect_cvd_divergence: the values it can return.  The  *)
(* local-extrema search over the 20-candle window is not modelled; its      *)
(* result is an input drawn from this set, None when the series is empty.   *)
(***************************************************************************)
NoDivergence == [type |-> "NONE", strength |-> "NONE", bonus_score |-> 0]

\* A strong divergence worth 25 points.
Mutant_DivergenceResults ==
    {NoDivergence} \cup
    {[type |-> ty, strength |-> st, bonus_score |-> IF st = "STRONG" THEN 25 ELSE 10] :
        ty \in {"BULLISH", "BEARISH"}, st \in {"STRONG", "WEAK"}}

DivergenceResults ==
    {NoDivergence} \cup
    {[type |-> ty, strength |-> st, bonus_score |-> IF st = "STRONG" THEN 15 ELSE 10] :
        ty \in {"BULLISH", "BEARISH"}, st \in {"STRONG", "WEAK"}}

(***************************************************************************)
(* PatternDetector.get_all_patterns, from the results of the six detectors. *)
(***************************************************************************)
Names(flags, names) == SelectSeq(names, LAMBDA n : flags[n])

get_all_patterns(p) ==
    LET bullish == Names(p, <<"bullish_engulfing", "hammer", "three_bullish">>)
        bearish == Names(p, <<"bearish_engulfing", "shooting_star", "three_bearish">>)
    IN  [bullish |-> bullish,
         bearish |-> bearish,
         score |-> IF bullish # <<>> \/ bearish # <<>> THEN 10 ELSE 0]

(***************************************************************************)
(* SignalDetector                                                           *)
(*                                                                          *)
(* d is the prepared data of one symbol: d.empty4h / d.empty1h, d.price     *)
(* (last 1h close), d.vwap (the 1h vwap column, oldest first, NaN allowed), *)
(* d.volume and d.cvd (1h), d.divergence, d.patterns, d.low2 / d.high2 (the *)
(* extreme low / high of the last 2 candles), d.low4 / d.high4 (last 4).    *)
(* A setup is a record with exactly the keys the code's dict has; the keys  *)
(* reasons and entry_zone, which nothing downstream reads, are left out.    *)
(***************************************************************************)
NoSetup == [direction |-> "NONE"]

\* dict.get(key): NaN (None) for a key the record does not have.
Get(rec, key) == IF key \in DOMAIN rec THEN rec[key] ELSE NaN

\* df[column].iloc[-1], NaN when the column is absent.
LastValue(column) == IF Len(column) = 0 THEN NaN ELSE Last(column)

\* distance(a) < distance(b) for distance(l) = abs(price - l) / max(l, 1e-8).
Closer(price, a, b) == Abs(price - a) * b < Abs(price - b) * a

RECURSIVE closest_level_loop(_, _, _, _)
closest_level_loop(current_price, levels, i, best_level) ==
    IF i > Len(levels) THEN best_level
    ELSE LET level == levels[i]
         IN  closest_level_loop(current_price, levels, i + 1,
                 IF level = NaN THEN best_level
                 ELSE IF best_level = NaN \/ Closer(current_price, level, best_level) THEN level
                 ELSE best_level)

\* SignalDetector._find_closest_level: the level, NaN when there is none.
_find_closest_level(current_price, levels) == closest_level_loop(current_price, levels, 1, NaN)

\* best_distance <= 0.01
WithinOnePercent(current_price, level) == Abs(current_price - level) * 100 <= level

_detect_liquidity_sweep_long(d, support_level) ==
    IF support_level = NaN \/ Len(d.volume) < 2 THEN FALSE
    ELSE d.low2 * 1000 < support_level * 998 /\ d.price > support_level

_detect_liquidity_sweep_short(d, resistance_level) ==
    IF resistance_level = NaN \/ Len(d.volume) < 2 THEN FALSE
    ELSE d.high2 * 1000 > resistance_level * 1002 /\ d.price < resistance_level

\* A structure gate that dropped the proximity-to-support condition.
Mutant_LongStructureValid(d, market_structure, support_level) ==
    /\ HasAlcista(market_structure.trend.trend)
    /\ market_structure.trend.structure = "HH/HL"
    /\ LastValue(d.vwap) # NaN /\ d.price * 1000 >= LastValue(d.vwap) * 995

LongStructureValid(d, market_structure, support_level) ==
    /\ support_level # NaN /\ WithinOnePercent(d.price, support_level)
    /\ HasAlcista(market_structure.trend.trend)
    /\ market_structure.trend.structure = "HH/HL"
    /\ LastValue(d.vwap) # NaN /\ d.price * 1000 >= LastValue(d.vwap) * 995

ShortStructureValid(d, market_structure, resistance_level) ==
    /\ resistance_level # NaN /\ WithinOnePercent(d.price, resistance_level)
    /\ HasBajista(market_structure.trend.trend)
    /\ market_structure.trend.structure = "LH/LL"
    /\ LastValue(d.vwap) # NaN /\ d.price * 1000 <= LastValue(d.vwap) * 1005

detect_long_setup(d, market_structure) ==
    IF d.empty4h \/ d.empty1h THEN NoSetup
    ELSE
    LET support_level == _find_closest_level(d.price, market_structure.supports)
        orderflow_result == analyze_volume_pressure(d.volume, d.cvd, Lookback)
        orderflow_valid == orderflow_result.pressure = "BUYING" /\ orderflow_result.score >= 15
        divergence == IF d.divergence.type = "BULLISH" THEN d.divergence ELSE NoDivergence
        patterns == get_all_patterns(d.patterns)
        pattern_valid == patterns.bullish # <<>>
        liquidity_sweep == _detect_liquidity_sweep_long(d, support_level)
    IN  IF ~ LongStructureValid(d, market_structure, support_level) THEN NoSetup
        ELSE IF ~ orderflow_valid THEN NoSetup
        ELSE [direction |-> "LONG",
              base_score |-> 20 + orderflow_result.score + divergence.bonus_score
                             + (IF pattern_valid THEN Min(10, patterns.score) ELSE 0)
                             + (IF liquidity_sweep THEN 10 ELSE 0),
              structure_valid |-> TRUE,
              orderflow_valid |-> orderflow_valid,
              pattern_valid |-> pattern_valid,
              liquidity_sweep |-> liquidity_sweep,
              support_level |-> support_level,
              divergence |-> divergence]

\* A short detector without the structure gate that takes order flow of
\* either direction.
Mutant_detect_short_setup(d, market_structure) ==
    IF d.empty4h \/ d.empty1h THEN NoSetup
    ELSE
    LET resistance_level == _find_closest_level(d.price, market_structure.resistances)
        orderflow_result == analyze_volume_pressure(d.volume, d.cvd, Lookback)
        orderflow_valid == orderflow_result.score >= 15
    IN  IF ~ orderflow_valid THEN NoSetup
        ELSE [direction |-> "SHORT",
              base_score |-> 20 + orderflow_result.score,
              structure_valid |-> TRUE,
              orderflow_valid |-> orderflow_valid,
              pattern_valid |-> FALSE,
              liquidity_sweep |-> FALSE,
              resistance_level |-> resistance_level,
              divergence |-> NoDivergence]

detect_short_setup(d, market_structure) ==
    IF d.empty4h \/ d.empty1h THEN NoSetup
    ELSE
    LET resistance_level == _find_closest_level(d.price, market_structure.resistances)
        orderflow_result == analyze_volume_pressure(d.volume, d.cvd, Lookback)
        orderflow_valid == orderflow_result.pressure = "SELLING" /\ orderflow_result.score >= 15
        divergence == IF d.divergence.type = "BEARISH" THEN d.divergence ELSE NoDivergence
        patterns == get_all_patterns(d.patterns)
        pattern_valid == patterns.bearish # <<>>
        liquidity_sweep == _detect_liquidity_sweep_short(d, resistance_level)
    IN  IF ~ ShortStructureValid(d, market_structure, resistance_level) THEN NoSetup
        ELSE IF ~ orderflow_valid THEN NoSetup
        ELSE [direction |-> "SHORT",
              base_score |-> 20 + orderflow_result.score + divergence.bonus_score
                             + (IF pattern_valid THEN Min(10, patterns.score) ELSE 0)
                             + (IF liquidity_sweep THEN 10 ELSE 0),
              structure_valid |-> TRUE,
              orderflow_valid |-> orderflow_valid,
              pattern_valid |-> pattern_valid,
              liquidity_sweep |-> liquidity_sweep,
              resistance_level |-> resistance_level,
              divergence |-> divergence]

(***************************************************************************)
(* ConfluenceDetector                                                       *)
(*                                                                          *)
(* levels is the dict as a sequence of [name, level]; tolerance is in       *)
(* thousandths (0.005 is 5); the multiplier is in tenths.                   *)
(***************************************************************************)
DefaultTolerance == 5

calculate_multiplier(count) ==
    IF count >= 4 THEN 15
    ELSE IF count = 3 THEN 12
    ELSE 10

\* detect_confluences taking the size of the tolerance, |tolerance|,
\* instead of max(0, tolerance)
Mutant_detect_confluences(price, levels, tolerance) ==
    IF price <= 0 THEN [count |-> 0, levels |-> <<>>, multiplier |-> 10]
    ELSE
    LET tol == Abs(tolerance)
        near(e) == e.level # NaN /\ e.level > 0 /\ Abs(price - e.level) * 1000 <= tol * price
        nearby == SelectSeq(levels, near)
    IN  [count |-> Len(nearby),
         levels |-> [i \in 1..Len(nearby) |-> nearby[i].name],
         multiplier |-> calculate_multiplier(Len(nearby))]

detect_confluences(price, levels, tolerance) ==
    IF price <= 0 THEN [count |-> 0, levels |-> <<>>, multiplier |-> 10]
    ELSE
    LET tol == Max(0, tolerance)
        near(e) == e.level # NaN /\ e.level > 0 /\ Abs(price - e.level) * 1000 <= tol * price
        nearby == SelectSeq(levels, near)
    IN  [count |-> Len(nearby),
         levels |-> [i \in 1..Len(nearby) |-> nearby[i].name],
         multiplier |-> calculate_multiplier(Len(nearby))]

(***************************************************************************)
(* SignalScorer                                                             *)
(*                                                                          *)
(* Component scores are whole points.  final_score is in thousandths of a   *)
(* point: (base [points] * confluence multiplier [tenths] + bonus) * BTC    *)
(* multiplier [hundredths] + bonuses.                                       *)
(***************************************************************************)
Symbols == {"BTC/USDT", "ETH/USDT", "SOL/USDT"}

\* symbol.upper().startswith("BTC"), over the symbols the model names
IsBTC(symbol) == symbol \in {"BTC/USDT", "btc/usdt", "BTC/USDC", "BTCUSDT"}

\* abs(price - level) / max(level, 1e-8) <= tolerance, tolerance in thousandths
Near(price, level, tolerance) ==
    level # NaN /\ level > 0 /\ Abs(price - level) * 1000 <= tolerance * level

_structure_score(direction, setup, current_price, key_levels) ==
    LET reference == IF direction = "LONG" THEN Get(setup, "support_level")
                     ELSE Get(setup, "resistance_level")
        score == (IF Near(current_price, reference, 10) THEN 15 ELSE 0)
                 + (IF Near(current_price, key_levels.poc_weekly, 5) THEN 5 ELSE 0)
    IN  Min(score, 20)

_order_flow_score(setup) ==
    LET score == Get(setup, "orderflow_score")
    IN  IF score = NaN THEN 0 ELSE Max(0, Min(score, 20))

_pattern_score(setup) ==
    LET score == Get(setup, "pattern_score")
    IN  IF score = NaN THEN 0 ELSE Max(0, Min(score, 10))

_liquidity_score(setup) ==
    LET base == IF Get(setup, "liquidity_sweep") = TRUE THEN 10 ELSE 0
        extra == IF Get(setup, "previous_extreme_sweep") = TRUE THEN 5 ELSE 0
    IN  Min(15, base + extra)

_key_level_score(direction, current_price, key_levels, indicator_context) ==
    LET vwap == indicator_context.vwap
        score == IF direction = "LONG"
                 THEN (IF Near(current_price, key_levels.val, 5) THEN 10 ELSE 0)
                      + (IF Near(current_price, vwap, 2) THEN 5 ELSE 0)
                 ELSE (IF Near(current_price, key_levels.vah, 5) THEN 10 ELSE 0)
                      + (IF vwap # NaN /\ current_price <= vwap /\ Near(current_price, vwap, 2) THEN 5 ELSE 0)
    IN  Min(score, 15)

_calculate_base_components(direction, setup, current_price, key_levels, indicator_context) ==
    [structure |-> _structure_score(direction, setup, current_price, key_levels),
     order_flow |-> _order_flow_score(setup),
     patterns |-> _pattern_score(setup),
     liquidity |-> _liquidity_score(setup),
     key_levels |-> _key_level_score(direction, current_price, key_levels, indicator_context)]

_build_confluence_levels(direction, setup, key_levels, indicator_context) ==
    <<[name |-> "poc_weekly", level |-> key_levels.poc_weekly],
      [name |-> "poc_daily", level |-> key_levels.poc_daily],
      [name |-> "vwap", level |-> indicator_context.vwap],
      [name |-> "vwap_session", level |-> indicator_context.vwap_session],
      [name |-> "ema_50", level |-> indicator_context.ema_50],
      [name |-> "val", level |-> key_levels.val],
      [name |-> "vah", level |-> key_levels.vah]>>
    \o (IF direction = "LONG"
        THEN <<[name |-> "swing_support", level |-> Get(setup, "support_level")],
               [name |-> "pdl", level |-> key_levels.pdl],
               [name |-> "pwl", level |-> key_levels.pwl]>>
        ELSE <<[name |-> "swing_resistance", level |-> Get(setup, "resistance_level")],
               [name |-> "pdh", level |-> key_levels.pdh],
               [name |-> "pwh", level |-> key_levels.pwh]>>)

\* A confluence bonus without the extra 20 points from 4 levels on.
Mutant_calculate_confluence_bonus(confluence_data) ==
    IF confluence_data.count <= 1 THEN 0 ELSE (confluence_data.count - 1) * 10

_calculate_confluence_bonus(confluence_data) ==
    IF confluence_data.count <= 1 THEN 0
    ELSE (confluence_data.count - 1) * 10 + (IF confluence_data.count >= 4 THEN 20 ELSE 0)

_select_multiplier(direction, btc) ==
    IF direction = "LONG" THEN btc.multiplier_long ELSE btc.multiplier_short

_calculate_session_bonus(session) ==
    IF session = "ALTA" THEN 10
    ELSE IF session = "MEDIA" THEN 5
    ELSE 0

\* A correlation bonus that does not exempt the BTC symbols.
Mutant_calculate_correlation_bonus(symbol, btc, direction) ==
    IF HasAlcista(btc.trend) THEN (IF direction = "LONG" THEN 10 ELSE 0 - 15)
    ELSE IF HasBajista(btc.trend) THEN (IF direction = "SHORT" THEN 10 ELSE 0 - 15)
    ELSE 0

_calculate_correlation_bonus(symbol, btc, direction) ==
    IF IsBTC(symbol) THEN 0
    ELSE IF HasAlcista(btc.trend) THEN (IF direction = "LONG" THEN 10 ELSE 0 - 15)
    ELSE IF HasBajista(btc.trend) THEN (IF direction = "SHORT" THEN 10 ELSE 0 - 15)
    ELSE 0

\* score in thousandths of a point
_determine_confidence(score) ==
    IF score >= 110000 THEN "ALTA"
    ELSE IF score >= 85000 THEN "MEDIA"
    ELSE "BAJA"

\* An alert threshold of 50 instead of 60.
Mutant_ShouldAlert(final_score) == final_score >= 50000

\* should_alert = final_score >= 60, final_score in thousandths
ShouldAlert(final_score) == final_score >= 60000

calculate_final_score(setup, btc, symbol, current_price, key_levels, indicator_context) ==
    LET direction == setup.direction
        base_components == _calculate_base_components(direction, setup, current_price, key_levels, indicator_context)
        base_score == Min(base_components.structure + base_components.order_flow + base_components.patterns
                          + base_components.liquidity + base_components.key_levels, 80)
        confluence_levels == _build_confluence_levels(direction, setup, key_levels, indicator_context)
        confluence_data == detect_confluences(current_price, confluence_levels, DefaultTolerance)
        confluence_bonus == _calculate_confluence_bonus(confluence_data)
        btc_multiplier == _select_multiplier(direction, btc)
        session_bonus == _calculate_session_bonus(btc.session_quality)
        correlation_bonus == _calculate_correlation_bonus(symbol, btc, direction)
        divergence_bonus == setup.divergence.bonus_score
        other_bonuses == session_bonus + correlation_bonus + divergence_bonus
        final_score == (base_score * confluence_data.multiplier + confluence_bonus * 10) * btc_multiplier
                       + other_bonuses * 1000
    IN  [final_score |-> Round2(final_score),
         exact_score |-> final_score,
         base_score |-> base_score,
         btc_multiplier |-> btc_multiplier,
         bonus |-> other_bonuses + confluence_bonus,
         confidence |-> _determine_confidence(final_score),
         should_alert |-> ShouldAlert(final_score),
         confluence |-> [count |-> confluence_data.count,
                         levels |-> confluence_data.levels,
                         multiplier |-> confluence_data.multiplier,
                         bonus |-> confluence_bonus],
         base_components |-> base_components,
         session_bonus |-> session_bonus,
         correlation_bonus |-> correlation_bonus,
         divergence_bonus |-> divergence_bonus]

(***************************************************************************)
(* SignalEngine helpers and _create_signal                                  *)
(*                                                                          *)
(* The prices of a Signal (entry_price, stop_loss, take_profit_k) are in    *)
(* units of 1 / PriceScale tick, which makes price * 0.005, level * 0.98    *)
(* and atr * 2.5 whole numbers.  Fields of the Signal that no property      *)
(* reads (reasons, risk_percent, the indicator snapshot, the timestamps)    *)
(* are left out.                                                            *)
(***************************************************************************)
PriceScale == 10000

\* SignalEngine._get_last_indicator: the last non-NaN value of the column.
_get_last_indicator(column) ==
    LET valid == SelectSeq(column, LAMBDA v : v # NaN)
    IN  IF Len(valid) = 0 THEN NaN ELSE Last(valid)

_build_indicator_context(d) ==
    [vwap |-> _get_last_indicator(d.vwap),
     ema_50 |-> _get_last_indicator(d.ema_50),
     vwap_session |-> d.vwap_session]

_did_price_sweep(d, level, direction, lookback) ==
    IF level = NaN \/ level <= 0 THEN FALSE
    ELSE IF d.empty1h THEN FALSE
    ELSE IF Len(TailN(d.volume, Max(lookback, 2))) < 2 THEN FALSE
    ELSE IF direction = "LONG" THEN d.low4 * 1000 < level * 999 /\ d.price > level
    ELSE IF direction = "SHORT" THEN d.high4 * 1000 > level * 1001 /\ d.price < level
    ELSE FALSE

_detect_previous_extreme_sweep(d, key_levels, direction) ==
    IF d.empty1h THEN FALSE
    ELSE IF direction = "LONG"
    THEN \E level \in {key_levels.pdl, key_levels.pwl} : _did_price_sweep(d, level, "LONG", Lookback)
    ELSE IF direction = "SHORT"
    THEN \E level \in {key_levels.pdh, key_levels.pwh} : _did_price_sweep(d, level, "SHORT", Lookback)
    ELSE FALSE

\* atr_multiplier, doubled: 1.5 for BTC, 2.0 for ETH, 2.5 otherwise
AtrMultiplier2(symbol) ==
    IF symbol = "BTC/USDT" THEN 3
    ELSE IF symbol = "ETH/USDT" THEN 4
    ELSE 5

\* A correction that fires only for a stop strictly beyond the entry.
Mutant_CorrectedStop(direction, current_price, level, stop_loss, min_risk_distance) ==
    IF direction = "LONG"
    THEN (IF stop_loss > current_price
          THEN current_price - Max(min_risk_distance, Abs(current_price - level))
          ELSE stop_loss)
    ELSE (IF stop_loss < current_price
          THEN current_price + Max(min_risk_distance, Abs(level - current_price))
          ELSE stop_loss)

\* The stop moved to the correct side of the entry (signal_engine.py 207-208, 220-221).
CorrectedStop(direction, current_price, level, stop_loss, min_risk_distance) ==
    IF direction = "LONG"
    THEN (IF stop_loss >= current_price
          THEN current_price - Max(min_risk_distance, Abs(current_price - level))
          ELSE stop_loss)
    ELSE (IF stop_loss <= current_price
          THEN current_price + Max(min_risk_distance, Abs(level - current_price))
          ELSE stop_loss)

_create_signal(symbol, setup, score_result, btc, d, key_levels, confluence) ==
    LET current_price == d.price * PriceScale
        atr == _get_last_indicator(d.atr)
        direction == setup.direction
        atr_distance == atr * AtrMultiplier2(symbol) * (PriceScale \div 2)
        min_risk_distance == d.price * ((PriceScale * 5) \div 1000)
        level_value == IF direction = "LONG" THEN Get(setup, "support_level")
                       ELSE Get(setup, "resistance_level")
        level == IF level_value = NaN
                 THEN (IF direction = "LONG" THEN d.price * ((PriceScale * 98) \div 100)
                       ELSE d.price * ((PriceScale * 102) \div 100))
                 ELSE level_value * PriceScale
        raw_stop == IF direction = "LONG"
                    THEN (IF atr # NaN THEN level - atr_distance ELSE (level \div 100) * 98)
                    ELSE (IF atr # NaN THEN level + atr_distance ELSE (level \div 100) * 102)
        stop_loss == CorrectedStop(direction, current_price, level, raw_stop, min_risk_distance)
        risk == IF direction = "LONG"
                THEN Max(current_price - stop_loss, min_risk_distance)
                ELSE Max(stop_loss - current_price, min_risk_distance)
        sign == IF direction = "LONG" THEN 1 ELSE 0 - 1
    IN  [symbol |-> symbol,
         direction |-> direction,
         score |-> score_result.final_score,
         confidence |-> score_result.confidence,
         entry_price |-> current_price,
         stop_loss |-> stop_loss,
         take_profit_1 |-> current_price + sign * risk * 2,
         take_profit_2 |-> current_price + sign * risk * 3,
         take_profit_3 |-> current_price + sign * risk * 4,
         suggested_position_size |-> IF score_result.confidence = "ALTA" THEN 15
                                     ELSE IF score_result.confidence = "MEDIA" THEN 10
                                     ELSE 5,
         btc_trend |-> btc.trend,
         session_quality |-> btc.session_quality,
         atr_value |-> atr,
         base_score |-> score_result.base_score,
         base_components |-> score_result.base_components,
         key_levels |-> key_levels,
         confluence |-> confluence,
         btc_multiplier |-> score_result.btc_multiplier,
         total_bonus |-> score_result.bonus]

(***************************************************************************)
(* BTCFilter.analyze_btc_context                                            *)
(*                                                                          *)
(* b is the prepared BTC data: b.empty4h / b.empty1h, b.trend_in (the 4h    *)
(* inputs of determine_trend), b.atr (the 4h atr column, oldest first) and  *)
(* b.hour (the UTC hour of the call).  current_price, atr and adx of the    *)
(* context, which nothing downstream reads, are left out.                   *)
(***************************************************************************)
RECURSIVE SumSeq(_)
SumSeq(seq) == IF seq = <<>> THEN 0 ELSE seq[1] + SumSeq(Tail(seq))

VolatilityLookback == 20

_calculate_volatility(atr_column) ==
    LET recent == SelectSeq(atr_column, LAMBDA v : v # NaN)
    IN  IF Len(recent) = 0 THEN "NORMAL"
        ELSE
        LET atr_current == Last(recent)
            window == TailN(recent, VolatilityLookback)
            total == SumSeq(window)
            n == Len(window)
        IN  IF total <= 0 THEN "NORMAL"
            ELSE IF atr_current * n * 10 > total * 15 THEN "ALTA"
            ELSE IF atr_current * n * 10 < total * 7 THEN "BAJA"
            ELSE "NORMAL"

BuildContext(trend_info, volatility, session) ==
    LET multipliers == _calculate_multipliers(trend_info.trend, volatility)
    IN  [trend |-> trend_info.trend,
         trend_strength |-> trend_info.trend_strength,
         volatility |-> volatility,
         session_quality |-> session,
         multiplier_long |-> multipliers.long,
         multiplier_short |-> multipliers.short,
         should_trade |-> _should_trade_decision(trend_info.trend, volatility, trend_info.trend_strength)]

analyze_btc_context(b) ==
    IF b.empty4h \/ b.empty1h
    THEN [trend |-> "INESTABLE", trend_strength |-> 0, volatility |-> "ALTA",
          session_quality |-> _get_session_quality(b.hour),
          multiplier_long |-> 20, multiplier_short |-> 20, should_trade |-> FALSE]
    ELSE BuildContext(determine_trend(b.trend_in), _calculate_volatility(b.atr), _get_session_quality(b.hour))

(***************************************************************************)
(* The body of the symbol loop of scan_for_signals (signal_engine.py        *)
(* 75-144), for a symbol whose 4h and 1h data are not empty: the setups of  *)
(* the two directions, the score of each setup that is not None, and the    *)
(* Signals appended to `signals`, in order.  supports / resistances are the *)
(* zone prices identify_support_resistance returned, d.key_levels the key   *)
(* levels _get_or_compute_key_levels returned.                              *)
(***************************************************************************)
AugmentedSetup(setup, d, key_levels) ==
    [k \in DOMAIN setup \cup {"previous_extreme_sweep"} |->
        IF k = "previous_extreme_sweep"
        THEN _detect_previous_extreme_sweep(d, key_levels, setup.direction)
        ELSE setup[k]]

\* for setup in (long_setup, short_setup): if not setup: continue
CandidateSetups(long_setup, short_setup, d, key_levels) ==
    LET found == SelectSeq(<<long_setup, short_setup>>, LAMBDA st : st # NoSetup)
    IN  [i \in 1..Len(found) |-> AugmentedSetup(found[i], d, key_levels)]

ScoreSetups(setups, btc, symbol, d, key_levels) ==
    [i \in 1..Len(setups) |->
        calculate_final_score(setups[i], btc, symbol, d.price, key_levels, _build_indicator_context(d))]

\* if not score_result.get("should_alert", False): continue
AppendedSignals(symbol, setups, scores, btc, d, key_levels) ==
    LET alerted == SelectSeq([i \in 1..Len(setups) |-> i], LAMBDA i : scores[i].should_alert)
    IN  [k \in 1..Len(alerted) |->
            _create_signal(symbol, setups[alerted[k]], scores[alerted[k]], btc, d, key_levels, scores[alerted[k]].confluence)]

LoopResult(symbol, d, btc, key_levels, long_setup, short_setup, setups, scores) ==
    [long_setup |-> long_setup,
     short_setup |-> short_setup,
     setups |-> setups,
     scores |-> scores,
     signals |-> AppendedSignals(symbol, setups, scores, btc, d, key_levels)]

ScoredLoop(symbol, d, btc, key_levels, long_setup, short_setup, setups) ==
    LoopResult(symbol, d, btc, key_levels, long_setup, short_setup, setups,
               ScoreSetups(setups, btc, symbol, d, key_levels))

DetectedLoop(symbol, d, btc, key_levels, long_setup, short_setup) ==
    ScoredLoop(symbol, d, btc, key_levels, long_setup, short_setup,
               CandidateSetups(long_setup, short_setup, d, key_levels))

StructureOf(d) ==
    [supports |-> d.supports, resistances |-> d.resistances, trend |-> determine_trend(d.trend_in)]

SymbolLoopBody(symbol, d, btc, key_levels) ==
    DetectedLoop(symbol, d, btc, key_levels,
                 detect_long_setup(d, StructureOf(d)), detect_short_setup(d, StructureOf(d)))

(***************************************************************************)
(* SignalEngine._get_or_compute_key_levels                                  *)
(*                                                                          *)
(* The cache maps a symbol to NoEntry or to [timestamp, data].  `computed`  *)
(* is the map of key levels the calculators return for the supplied frame;  *)
(* `time` is the value datetime.utcnow() returns in the call.  The result   *)
(* is the map returned and the cache after the call.                        *)
(***************************************************************************)
KeyLevelsTTL == 3600

NoEntry == [timestamp |-> NaN]

EmptyCache == [symbol \in Symbols |-> NoEntry]

\* A cache that never expires an entry.
Mutant_IsFresh(cache_entry, time) == cache_entry # NoEntry

\* cache_entry and (now - cache_entry["timestamp"]).total_seconds() < 3600
IsFresh(cache_entry, time) ==
    cache_entry # NoEntry /\ time - cache_entry.timestamp < KeyLevelsTTL

_get_or_compute_key_levels(cache, symbol, computed, time) ==
    IF IsFresh(cache[symbol], time)
    THEN [data |-> cache[symbol].data, cache |-> cache]
    ELSE [data |-> computed,
          cache |-> [cache EXCEPT ![symbol] = [timestamp |-> time, data |-> computed]]]

(***************************************************************************)
(* The download of main(): DataFetcher.fetch_historical_data calls          *)
(* BinanceClient.get_ohlcv for every symbol and timeframe in order, then    *)
(* main stores every frame fetched.  fetch.queue holds the (symbol,         *)
(* timeframe) pairs still to fetch, fetch.attempt the failed attempts of    *)
(* the get_ohlcv call in progress, fetch.calls the exchange calls it made,  *)
(* fetch.slept the delay of its last sleep in units of retry_delay.         *)
(***************************************************************************)
MaxRetries == 3

Timeframes == <<"1h", "4h">>

PairsOf(symbols) ==
    [i \in 1..(2 * Len(symbols)) |->
        [symbol |-> symbols[(i + 1) \div 2], timeframe |-> Timeframes[((i - 1) % 2) + 1]]]

FetchIdle ==
    [pc |-> "idle", queue |-> <<>>, attempt |-> 0, calls |-> 0, slept |-> 0,
     results |-> {}, stored |-> {}, error |-> "none", failed |-> "none"]

\* What one call of the exchange, and the validation of its payload by the
\* fetcher, can come to.
ProviderOutcomes == {"ok", "empty", "invalid_payload", "gaps", "bad_symbol", "network", "timeout", "exchange"}

\* get_ohlcv looping while attempt <= max_retries
Mutant_GetOhlcvStep(attempt, outcome) ==
    IF outcome = "ok" THEN [status |-> "returned", attempt |-> attempt, slept |-> 0, error |-> "none"]
    ELSE IF outcome \in {"empty", "invalid_payload"}
    THEN [status |-> "raised", attempt |-> attempt, slept |-> 0, error |-> "payload"]
    ELSE IF outcome = "gaps"
    THEN [status |-> "raised", attempt |-> attempt, slept |-> 0, error |-> "validation"]
    ELSE IF outcome = "bad_symbol"
    THEN [status |-> "raised", attempt |-> attempt, slept |-> 0, error |-> "invalid_symbol"]
    ELSE IF outcome = "exchange"
    THEN [status |-> "raised", attempt |-> attempt, slept |-> 0, error |-> "exchange"]
    ELSE IF attempt + 1 <= MaxRetries
    THEN [status |-> "retry", attempt |-> attempt + 1, slept |-> attempt + 1, error |-> "none"]
    ELSE [status |-> "raised", attempt |-> attempt + 1, slept |-> attempt + 1, error |-> "exhausted"]

\* One iteration of the while loop of get_ohlcv, followed for a returned
\* frame by the validation of fetch_historical_data.
GetOhlcvStep(attempt, outcome) ==
    IF outcome = "ok" THEN [status |-> "returned", attempt |-> attempt, slept |-> 0, error |-> "none"]
    ELSE IF outcome \in {"empty", "invalid_payload"}
    THEN [status |-> "raised", attempt |-> attempt, slept |-> 0, error |-> "payload"]
    ELSE IF outcome = "gaps"
    THEN [status |-> "raised", attempt |-> attempt, slept |-> 0, error |-> "validation"]
    ELSE IF outcome = "bad_symbol"
    THEN [status |-> "raised", attempt |-> attempt, slept |-> 0, error |-> "invalid_symbol"]
    ELSE IF outcome = "exchange"
    THEN [status |-> "raised", attempt |-> attempt, slept |-> 0, error |-> "exchange"]
    ELSE IF attempt + 1 < MaxRetries
    THEN [status |-> "retry", attempt |-> attempt + 1, slept |-> attempt + 1, error |-> "none"]
    ELSE [status |-> "raised", attempt |-> attempt + 1, slept |-> attempt + 1, error |-> "exhausted"]

(***************************************************************************)
(* Idle values of the variables a specification does not use.               *)
(***************************************************************************)
NoContext == [trend |-> "INESTABLE", trend_strength |-> 0, volatility |-> "NORMAL", session_quality |-> "BAJA", multiplier_long |-> 0, multiplier_short |-> 0, should_trade |-> FALSE]
NoCall == [kind |-> "none"]

ScanIdle ==
    /\ pc = "idle"
    /\ btc_context = NoContext
    /\ remaining = 0
    /\ scanned = <<>>
    /\ signals = <<>>
    /\ result = <<>>
    /\ failures = <<>>
    /\ key_levels_cache = EmptyCache
    /\ now = 0
    /\ fetch = FetchIdle

(***************************************************************************)
(* SpecBTC: _calculate_multipliers and _should_trade_decision applied to    *)
(* every trend label, volatility class and trend strength.                  *)
(***************************************************************************)
InitBTC ==
    /\ ScanIdle
    /\ fn = "none"
    /\ args \in [trend : TrendLabels, volatility : Volatilities, trend_strength : 0..MaxStrength]
    /\ ret = NoCall

AnalyzeBTC ==
    /\ fn = "none"
    /\ fn' = "btc_filter"
    /\ ret' = [kind |-> "btc_filter",
               multipliers |-> _calculate_multipliers(args.trend, args.volatility),
               should_trade |-> _should_trade_decision(args.trend, args.volatility, args.trend_strength)]
    /\ UNCHANGED <<args, scanVars>>

NextBTC == AnalyzeBTC

SpecBTC == InitBTC /\ [][NextBTC]_vars

(***************************************************************************)
(* Input data.  BaseData is the prepared data of a symbol trading at 10000  *)
(* ticks that passes the LONG gates: a support 0.5% below the price, an     *)
(* HH/HL up-trend with ADX 30, the price above VWAP and buying pressure.    *)
(***************************************************************************)
NoKeyLevels == [poc_weekly |-> NaN, poc_daily |-> NaN, vah |-> NaN, val |-> NaN, pwh |-> NaN, pwl |-> NaN, pdh |-> NaN, pdl |-> NaN]
NoPatterns == [bullish_engulfing |-> FALSE, hammer |-> FALSE, three_bullish |-> FALSE, bearish_engulfing |-> FALSE, shooting_star |-> FALSE, three_bearish |-> FALSE]

\* 4h inputs of determine_trend: rising swings over rising EMAs, the mirror
\* image, and a frame with a single swing on each side.
Bull(adx) == [highs |-> <<10100, 10200>>, lows |-> <<9800, 9900>>, close |-> 10000, ema20 |-> 9950, ema50 |-> 9900, adx |-> adx]
Bear(adx) == [highs |-> <<10200, 10100>>, lows |-> <<9900, 9800>>, close |-> 10000, ema20 |-> 10050, ema50 |-> 10100, adx |-> adx]
Flat(adx) == [highs |-> <<10100>>, lows |-> <<9900>>, close |-> 10000, ema20 |-> 10000, ema50 |-> 10000, adx |-> adx]
BullTrend == Bull(30)
BearTrend == Bear(30)

Cvd(v) == [nan |-> FALSE, v |-> v]
CvdNaN == [nan |-> TRUE, v |-> 0]
Volume4 == <<100, 100, 100, 100>>
BuyingCvd == <<Cvd(0), Cvd(10), Cvd(25), Cvd(40)>>
SellingCvd == <<Cvd(0), Cvd(0 - 10), Cvd(0 - 25), Cvd(0 - 40)>>
NeutralCvd == <<Cvd(0), Cvd(10), Cvd(20), Cvd(30)>>
SparseCvd == <<CvdNaN, CvdNaN, CvdNaN, Cvd(40)>>

BaseData ==
    [empty4h |-> FALSE, empty1h |-> FALSE, price |-> 10000, vwap |-> <<9990>>,
     supports |-> <<9950>>, resistances |-> <<10050>>, trend_in |-> BullTrend,
     volume |-> Volume4, cvd |-> BuyingCvd, divergence |-> NoDivergence, patterns |-> NoPatterns,
     low2 |-> 9990, low4 |-> 9990, high2 |-> 10010, high4 |-> 10010,
     atr |-> <<20>>, ema_50 |-> <<NaN>>, vwap_session |-> NaN, key_levels |-> NoKeyLevels]

\* weekly and daily POC and both value-area bounds at one price
LevelsAt(price) == [NoKeyLevels EXCEPT !.poc_weekly = price, !.poc_daily = price, !.vah = price, !.val = price]

OpenContext(trend, volatility, session) ==
    BuildContext([trend |-> trend, trend_strength |-> 40], volatility, session)

(***************************************************************************)
(* SpecRisk: _create_signal applied to every symbol, direction, price,      *)
(* reference level (also a missing one, also one outside the 1% band of the *)
(* structure gate) and ATR (also a missing one).                            *)
(***************************************************************************)
MaxLevelSteps == 6
MaxAtrSteps == 6
RiskPrices == {1000, 10000}

\* reference levels in steps of 0.2% of the price, ATR in steps of 0.1%
RiskLevels(price) == {NaN} \cup {price + k * (price \div 500) : k \in (0 - MaxLevelSteps)..MaxLevelSteps}
RiskAtrs(price) == {NaN} \cup {k * (price \div 1000) : k \in 0..MaxAtrSteps}

RiskInputs ==
    UNION {{[symbol |-> sy, direction |-> di, price |-> p, level |-> l, atr |-> a] :
                sy \in Symbols, di \in {"LONG", "SHORT"}, l \in RiskLevels(p), a \in RiskAtrs(p)} :
           p \in RiskPrices}

RiskSetup(direction, level) ==
    IF direction = "LONG"
    THEN [direction |-> "LONG", base_score |-> 40, structure_valid |-> TRUE, orderflow_valid |-> TRUE,
          pattern_valid |-> FALSE, liquidity_sweep |-> FALSE, support_level |-> level, divergence |-> NoDivergence]
    ELSE [direction |-> "SHORT", base_score |-> 40, structure_valid |-> TRUE, orderflow_valid |-> TRUE,
          pattern_valid |-> FALSE, liquidity_sweep |-> FALSE, resistance_level |-> level, divergence |-> NoDivergence]

InitRisk ==
    /\ ScanIdle
    /\ fn = "none"
    /\ args \in RiskInputs
    /\ ret = NoCall

CreateSignal ==
    /\ fn = "none"
    /\ fn' = "create_signal"
    /\ LET btc == OpenContext(IF args.direction = "LONG" THEN "ALCISTA_FUERTE" ELSE "BAJISTA_FUERTE", "NORMAL", "ALTA")
           d == [BaseData EXCEPT !.price = args.price, !.atr = <<args.atr>>, !.key_levels = LevelsAt(args.price)]
           setup == AugmentedSetup(RiskSetup(args.direction, args.level), d, d.key_levels)
           score_result == calculate_final_score(setup, btc, args.symbol, d.price, d.key_levels, _build_indicator_context(d))
       IN  ret' = [kind |-> "create_signal",
                   should_alert |-> score_result.should_alert,
                   signal |-> _create_signal(args.symbol, setup, score_result, btc, d, d.key_levels, score_result.confluence)]
    /\ UNCHANGED <<args, scanVars>>

NextRisk == CreateSignal

SpecRisk == InitRisk /\ [][NextRisk]_vars

\* C7: for every Signal built, LONG has stop_loss < entry_price <
\* take_profit_1 < take_profit_2 < take_profit_3, SHORT has the reverse
\* order, and entry_price is the last 1h close.
C7_LevelOrder ==
    fn = "create_signal" =>
        LET sg == ret.signal
        IN  /\ sg.entry_price = args.price * PriceScale
            /\ sg.direction = "LONG" =>
                   /\ sg.stop_loss < sg.entry_price
                   /\ sg.entry_price < sg.take_profit_1
                   /\ sg.take_profit_1 < sg.take_profit_2
                   /\ sg.take_profit_2 < sg.take_profit_3
            /\ sg.direction = "SHORT" =>
                   /\ sg.take_profit_3 < sg.take_profit_2
                   /\ sg.take_profit_2 < sg.take_profit_1
                   /\ sg.take_profit_1 < sg.entry_price
                   /\ sg.entry_price < sg.stop_loss

\* A LONG Signal whose support lies above the price with an ATR of 0: the
\* raw stop is not below the entry and the correction has moved it.
C7_Witness ==
    /\ fn = "create_signal"
    /\ ret.should_alert
    /\ args.direction = "LONG"
    /\ args.atr = 0
    /\ args.level # NaN /\ args.level > args.price
    /\ ret.signal.stop_loss < ret.signal.entry_price

\* the reference level is within the 1% band of the structure gate
InBand == args.level # NaN /\ WithinOnePercent(args.price, args.level)

\* C8: for every Signal built from a reference level within the 1% band,
\* abs(entry_price - stop_loss) >= 0.5% of entry_price.
C8_MinRiskDistance ==
    (fn = "create_signal" /\ InBand) =>
        Abs(ret.signal.entry_price - ret.signal.stop_loss) * 200 >= ret.signal.entry_price

\* C9: for every Signal built, abs(take_profit_k - entry_price) =
\* (k + 1) * abs(entry_price - stop_loss) for k = 1, 2, 3.
C9_TakeProfitMultiples ==
    (fn = "create_signal" /\ InBand) =>
        LET sg == ret.signal
            realized == Abs(sg.entry_price - sg.stop_loss)
        IN  /\ Abs(sg.take_profit_1 - sg.entry_price) = 2 * realized
            /\ Abs(sg.take_profit_2 - sg.entry_price) = 3 * realized
            /\ Abs(sg.take_profit_3 - sg.entry_price) = 4 * realized

(***************************************************************************)
(* SpecSymbol: the body of the symbol loop applied to one symbol under an   *)
(* open BTC gate.  The data drawn vary the inputs of the gates (GateData)   *)
(* and, for data that pass the gates of one direction, the inputs of the    *)
(* score (ScoreData).                                                       *)
(***************************************************************************)
CalmAtr == <<20, 20>>
SpikeAtr == <<10, 10, 10, 50>>
QuietAtr == <<30, 30, 30, 10>>

BTCInputs ==
    {[empty4h |-> e4, empty1h |-> e1, trend_in |-> t, atr |-> a, hour |-> h] :
        e4 \in BOOLEAN, e1 \in BOOLEAN,
        t \in {Bull(30), Bull(40), Bear(30), Bear(40), Bull(22), Flat(15)},
        a \in {CalmAtr, SpikeAtr, QuietAtr}, h \in {3, 8, 14}}

\* The contexts with which a scan reaches the symbol loop.
OpenContexts == {c \in {analyze_btc_context(b) : b \in BTCInputs} : c.should_trade}

Hammer == [NoPatterns EXCEPT !.hammer = TRUE]
BearishEngulfing == [NoPatterns EXCEPT !.bearish_engulfing = TRUE]

GateData ==
    {[BaseData EXCEPT !.supports = su, !.resistances = re, !.trend_in = t, !.vwap = vw, !.cvd = cv, !.patterns = pa] :
        su \in {<<>>, <<9950>>, <<9850>>, <<9850, 10020>>},
        re \in {<<>>, <<10050>>},
        t \in {Bull(30), Bear(30), Bull(22), Flat(15)},
        vw \in {<<NaN>>, <<9990>>, <<10010>>, <<10100>>},
        cv \in {BuyingCvd, SellingCvd, NeutralCvd, SparseCvd, <<>>},
        pa \in {NoPatterns, Hammer, BearishEngulfing}}

MixedLevels == [poc_weekly |-> 10030, poc_daily |-> 10200, vah |-> 10040, val |-> 9960, pwh |-> 10300, pwl |-> 9700, pdh |-> 10005, pdl |-> 9995]
ValueArea == [NoKeyLevels EXCEPT !.val = 9980, !.vah = 10020]
LowsOnly == [NoKeyLevels EXCEPT !.poc_daily = 10010, !.pdl = 9990, !.pwl = 9980]

Swept(d) == [d EXCEPT !.low2 = 9900, !.low4 = 9900, !.high2 = 10100, !.high4 = 10100]

ScoreData ==
    UNION {{[base EXCEPT !.key_levels = kl, !.divergence = dv, !.ema_50 = em, !.vwap_session = vs, !.vwap = vw, !.patterns = pa] :
                kl \in {NoKeyLevels, LevelsAt(10000), MixedLevels, ValueArea, LowsOnly},
                dv \in {NoDivergence,
                        [type |-> "BULLISH", strength |-> "STRONG", bonus_score |-> 15],
                        [type |-> "BEARISH", strength |-> "WEAK", bonus_score |-> 10]},
                em \in {<<NaN>>, <<10000>>},
                vs \in {NaN, 10010},
                vw \in {<<9990>>, <<10005>>, <<9700, 9800>>},
                pa \in {NoPatterns, Hammer, BearishEngulfing}} :
           base \in {BaseData, Swept(BaseData),
                     [BaseData EXCEPT !.trend_in = Bear(30), !.cvd = SellingCvd],
                     Swept([BaseData EXCEPT !.trend_in = Bear(30), !.cvd = SellingCvd])}}

\* BTC/USDT scanned as a symbol is read from the same store as the BTC
\* context: its 4h trend is the trend of the context.
Consistent(symbol, d, btc) ==
    IsBTC(symbol) =>
        LET trend == determine_trend(d.trend_in)
        IN  /\ ~ d.empty4h /\ ~ d.empty1h
            /\ trend.trend = btc.trend /\ trend.trend_strength = btc.trend_strength

InitSymbol ==
    /\ ScanIdle
    /\ fn = "none"
    /\ \E symbol \in Symbols, btc \in OpenContexts, d \in GateData \cup ScoreData :
          /\ Consistent(symbol, d, btc)
          /\ args = [symbol |-> symbol, btc |-> btc, d |-> d]
    /\ ret = NoCall

EvaluateSymbol ==
    /\ fn = "none"
    /\ fn' = "scan_symbol"
    /\ ret' = SymbolLoopBody(args.symbol, args.d, args.btc, args.d.key_levels)
    /\ UNCHANGED <<args, scanVars>>

NextSymbol == EvaluateSymbol

SpecSymbol == InitSymbol /\ [][NextSymbol]_vars

(***************************************************************************)
(* Spec: scan_for_signals.  StartScan loads the BTC frames, computes the    *)
(* BTC context and applies the gate; ScanSymbol is one iteration of the     *)
(* symbol loop; Finish sorts the accepted signals and returns the first 2.  *)
(* The symbol list is any list of at most MaxSymbols symbols, chosen one    *)
(* symbol at a time together with the stored data of that symbol.           *)
(***************************************************************************)
MaxSymbols == 3

ScanBTCInputs ==
    {[empty4h |-> FALSE, empty1h |-> FALSE, trend_in |-> Bull(30), atr |-> CalmAtr, hour |-> 14],
     [empty4h |-> FALSE, empty1h |-> FALSE, trend_in |-> Bear(30), atr |-> CalmAtr, hour |-> 8],
     [empty4h |-> FALSE, empty1h |-> FALSE, trend_in |-> Bull(30), atr |-> SpikeAtr, hour |-> 14],
     [empty4h |-> FALSE, empty1h |-> FALSE, trend_in |-> Bull(22), atr |-> CalmAtr, hour |-> 3],
     [empty4h |-> FALSE, empty1h |-> FALSE, trend_in |-> Flat(15), atr |-> CalmAtr, hour |-> 3],
     [empty4h |-> TRUE, empty1h |-> FALSE, trend_in |-> Bull(30), atr |-> CalmAtr, hour |-> 14],
     [empty4h |-> FALSE, empty1h |-> TRUE, trend_in |-> Bear(30), atr |-> CalmAtr, hour |-> 8]}

BearData == [BaseData EXCEPT !.trend_in = Bear(30), !.cvd = SellingCvd, !.vwap = <<10005>>]

ScanData ==
    {[BaseData EXCEPT !.key_levels = LevelsAt(10000), !.patterns = Hammer],
     [BaseData EXCEPT !.key_levels = LowsOnly, !.vwap = <<9700, 9800>>],
     Swept([BaseData EXCEPT !.key_levels = MixedLevels]),
     [BearData EXCEPT !.key_levels = LevelsAt(10000)],
     [BearData EXCEPT !.key_levels = MixedLevels, !.patterns = BearishEngulfing],
     [BaseData EXCEPT !.empty1h = TRUE]}

\* if not btc_context.get("should_trade", False): return []
\* A gate that lets every context through.
Mutant_GateOpen(context) == TRUE

GateOpen(context) == context.should_trade

\* signals.sort(key=lambda s: s.score, reverse=True): a stable sort, signals
\* of equal score keep their order.
InsertByScore(sorted, signal) ==
    LET k == Cardinality({i \in 1..Len(sorted) : sorted[i].score >= signal.score})
    IN  SubSeq(sorted, 1, k) \o <<signal>> \o SubSeq(sorted, k + 1, Len(sorted))

\* A sort that leaves the list in the order of the scan.
Mutant_SortByScore(seq) == seq

RECURSIVE SortByScore(_)
SortByScore(seq) ==
    IF seq = <<>> THEN <<>>
    ELSE InsertByScore(SortByScore(SubSeq(seq, 1, Len(seq) - 1)), Last(seq))

\* signals[:2]
TopSignals(sorted) == SubSeq(sorted, 1, Min(2, Len(sorted)))

Init ==
    /\ ScanIdle
    /\ fn = "none"
    /\ args = NoCall
    /\ ret = NoCall

StartScanOf(max_symbols) ==
    /\ pc = "idle"
    /\ \E b \in ScanBTCInputs, n \in 0..max_symbols :
          /\ remaining' = n
          /\ IF b.empty4h \/ b.empty1h
             THEN /\ pc' = "done"
                  /\ UNCHANGED btc_context
             ELSE /\ btc_context' = analyze_btc_context(b)
                  /\ pc' = IF GateOpen(btc_context') THEN "symbols" ELSE "done"
    /\ signals' = <<>>
    /\ result' = <<>>
    /\ scanned' = <<>>
    /\ failures' = <<>>
    /\ UNCHANGED <<key_levels_cache, now, fetch, callVars>>

StartScan == StartScanOf(MaxSymbols)

\* Seconds that pass from one iteration of the symbol loop to the next.
SecondsPerSymbol == 1

\* Only a symbol with both frames empty is skipped.
Mutant_InsufficientData(d) == d.empty4h /\ d.empty1h

\* if df_4h.empty or df_1h.empty: continue
InsufficientData(d) == d.empty4h \/ d.empty1h

\* An exception of _create_signal propagates out of scan_for_signals.
Mutant_PcAfterSymbol(failed) == IF failed THEN "raised" ELSE "symbols"

\* except Exception: logger.exception(...): the loop goes on.
PcAfterSymbol(failed) == "symbols"

\* try: signal = self._create_signal(...); signals.append(signal)
\* `built` are the Signals _create_signal returns for the alerted setups,
\* `failing` the directions for which the call raises instead.
AcceptSignals(built, failing) ==
    LET failed == \E i \in 1..Len(built) : built[i].direction \in failing
    IN  /\ signals' = signals \o SelectSeq(built, LAMBDA sg : sg.direction \notin failing)
        /\ failures' = IF failed THEN Append(failures, Len(scanned) + 1) ELSE failures
        /\ pc' = PcAfterSymbol(failed)

\* Each call of _create_signal either returns its Signal or raises.
ConstructSignals(built) ==
    \E failing \in SUBSET {built[i].direction : i \in 1..Len(built)} : AcceptSignals(built, failing)

\* The key levels fetched, and the cache written, only for a symbol for
\* which a Signal is built.
Mutant_EvaluateWithLevels(symbol, d, levels) ==
    /\ key_levels_cache' =
          IF SymbolLoopBody(symbol, d, btc_context, levels.data).signals # <<>>
          THEN levels.cache ELSE key_levels_cache
    /\ ConstructSignals(SymbolLoopBody(symbol, d, btc_context, levels.data).signals)

EvaluateWithLevels(symbol, d, levels) ==
    /\ key_levels_cache' = levels.cache
    /\ ConstructSignals(SymbolLoopBody(symbol, d, btc_context, levels.data).signals)

ScanSymbol ==
    /\ pc = "symbols"
    /\ remaining > 0
    /\ \E symbol \in Symbols, d \in ScanData :
          /\ Consistent(symbol, d, btc_context)
          /\ now' = now + SecondsPerSymbol
          /\ scanned' = Append(scanned, [symbol |-> symbol, skipped |-> (d.empty4h \/ d.empty1h)])
          /\ IF InsufficientData(d)
             THEN UNCHANGED <<signals, failures, key_levels_cache, pc>>
             ELSE EvaluateWithLevels(symbol, d,
                                     _get_or_compute_key_levels(key_levels_cache, symbol, d.key_levels, now'))
    /\ remaining' = remaining - 1
    /\ UNCHANGED <<btc_context, result, fetch, callVars>>

Finish ==
    /\ pc = "symbols"
    /\ remaining = 0
    /\ result' = TopSignals(SortByScore(signals))
    /\ pc' = "done"
    /\ UNCHANGED <<btc_context, remaining, scanned, signals, failures, key_levels_cache, now, fetch, callVars>>

Next == StartScan \/ ScanSymbol \/ Finish

Spec == Init /\ [][Next]_vars

\* C1: when the BTC context of a scan has should_trade = False, the scan
\* returns an empty list and visits no symbol, whatever the symbol list and
\* the stored data are.
C1_ClosedGateReturnsEmpty ==
    (pc = "done" /\ ~ btc_context.should_trade) => (result = <<>> /\ scanned = <<>> /\ signals = <<>>)

\* A scan of a non-empty symbol list that computed a BTC context with
\* should_trade = False and returned.
C1_Witness ==
    /\ pc = "done"
    /\ btc_context # NoContext /\ ~ btc_context.should_trade
    /\ remaining > 0
    /\ result = <<>>

Occurrences(seq, x) == Cardinality({i \in 1..Len(seq) : seq[i] = x})

\* C2: a scan returns at most 2 signals, in non-increasing order of score,
\* all of them accepted during the scan, and every accepted signal that is
\* not returned has a score less than or equal to that of every returned one.
C2_TopTwoByScore ==
    pc = "done" =>
        /\ Len(result) <= 2
        /\ Len(result) = Min(2, Len(signals))
        /\ \A i \in 1..Len(result) : \A j \in i..Len(result) : result[i].score >= result[j].score
        /\ \A i \in 1..Len(result) : Occurrences(result, result[i]) <= Occurrences(signals, result[i])
        /\ \A i \in 1..Len(signals) : \A j \in 1..Len(result) :
              signals[i].score > result[j].score => Occurrences(result, signals[i]) = Occurrences(signals, signals[i])

\* A scan that accepted 3 signals, the last with a higher score than the
\* first, and returned 2.
C2_Witness ==
    /\ pc = "done"
    /\ Len(signals) = 3
    /\ signals[3].score > signals[1].score
    /\ signals[2].score > signals[1].score
    /\ Len(result) = 2

\* The scored setup of a direction in the result of the loop body, as the
\* set of its positions in ret.setups (at most one).
ScoredAs(direction) == {i \in 1..Len(ret.setups) : ret.setups[i].direction = direction}

SignalsOf(direction) == {i \in 1..Len(ret.signals) : ret.signals[i].direction = direction}

C10_Scenario ==
    /\ fn = "scan_symbol"
    /\ args.symbol = "ETH/USDT"
    /\ args.btc.trend = "ALCISTA_FUERTE" /\ args.btc.multiplier_long = 120
    /\ LET d == args.d
           support_level == _find_closest_level(d.price, d.supports)
           orderflow_result == analyze_volume_pressure(d.volume, d.cvd, Lookback)
       IN  /\ support_level # NaN /\ WithinOnePercent(d.price, support_level)
           /\ determine_trend(d.trend_in).structure = "HH/HL"
           /\ LastValue(d.vwap) # NaN /\ d.price >= LastValue(d.vwap)
           /\ orderflow_result.pressure = "BUYING" /\ orderflow_result.score >= 15
           /\ Len(get_all_patterns(d.patterns).bullish) = 1

C10_LongSignal80 == \E i \in SignalsOf("LONG") : ret.signals[i].score >= 8000

\* The levels compared with the price for the confluence of a LONG setup that
\* lie within 0.5% of the price.
C10_NearLevels ==
    LET d == args.d
        levels == _build_confluence_levels("LONG", [support_level |-> _find_closest_level(d.price, d.supports)],
                                           d.key_levels, _build_indicator_context(d))
    IN  detect_confluences(d.price, levels, DefaultTolerance).count

\* C10 as stated: the scenario yields a LONG Signal with score >= 80 whatever
\* the key levels, the confluence and the indicator context are.
C10_Original == C10_Scenario => C10_LongSignal80

\* C10: in the ETH/USDT scenario, when moreover the 4h trend of the symbol is
\* ALCISTA_FUERTE and at least 4 of the confluence levels of a LONG setup lie
\* within 0.5% of the price, the loop body appends a LONG Signal with score
\* >= 80.
C10_ScenarioWithConfluence ==
    (/\ C10_Scenario
     /\ determine_trend(args.d.trend_in).trend = "ALCISTA_FUERTE"
     /\ C10_NearLevels >= 4) => C10_LongSignal80

\* The scenario with 4 confluence levels, its Signal scoring below 110.
C10_Witness ==
    /\ C10_Scenario
    /\ determine_trend(args.d.trend_in).trend = "ALCISTA_FUERTE"
    /\ C10_NearLevels = 4
    /\ \E i \in SignalsOf("LONG") : ret.signals[i].score >= 8000 /\ ret.signals[i].score < 11000

(***************************************************************************)
(* SpecFetch: main() downloading and storing the candles of a configured    *)
(* list of at most MaxFetchSymbols symbols.                                 *)
(***************************************************************************)
MaxFetchSymbols == 3

SymbolLists == UNION {[1..n -> Symbols] : n \in 0..MaxFetchSymbols}

InitFetch ==
    /\ ScanIdle
    /\ fn = "none"
    /\ args = NoCall
    /\ ret = NoCall

StartFetch ==
    /\ fetch.pc = "idle"
    /\ \E symbols \in SymbolLists :
          fetch' = [fetch EXCEPT !.pc = "fetching", !.queue = PairsOf(symbols)]
    /\ UNCHANGED <<pc, btc_context, remaining, scanned, signals, result, failures, key_levels_cache, now, callVars>>

\* An exception leaves get_ohlcv, fetch_historical_data and main, none of
\* which catches it.
AfterStep(step, outcome) ==
    IF step.status = "returned"
    THEN [fetch EXCEPT !.queue = Tail(fetch.queue), !.attempt = 0, !.calls = 0, !.slept = 0,
                       !.results = fetch.results \cup {Head(fetch.queue)}]
    ELSE IF step.status = "retry"
    THEN [fetch EXCEPT !.attempt = step.attempt, !.calls = fetch.calls + 1, !.slept = step.slept]
    ELSE [fetch EXCEPT !.pc = "raised", !.attempt = step.attempt, !.calls = fetch.calls + 1,
                       !.slept = step.slept, !.error = step.error, !.failed = Head(fetch.queue).symbol]

Request ==
    /\ fetch.pc = "fetching"
    /\ fetch.queue # <<>>
    /\ \E outcome \in ProviderOutcomes :
          fetch' = AfterStep(GetOhlcvStep(fetch.attempt, outcome), outcome)
    /\ UNCHANGED <<pc, btc_context, remaining, scanned, signals, result, failures, key_levels_cache, now, callVars>>

\* for symbol, timeframe_map in results.items(): storage.save_ohlcv(...)
StoreAll ==
    /\ fetch.pc = "fetching"
    /\ fetch.queue = <<>>
    /\ fetch' = [fetch EXCEPT !.pc = "done", !.stored = fetch.results]
    /\ UNCHANGED <<pc, btc_context, remaining, scanned, signals, result, failures, key_levels_cache, now, callVars>>

NextFetch == StartFetch \/ Request \/ StoreAll

SpecFetch == InitFetch /\ [][NextFetch]_vars

\* C15: when the provider fails for one symbol after the retries are
\* exhausted, only that symbol is skipped: at the end of the run the candles
\* fetched for the other symbols are stored.
C15_ProviderFailureSkipsSymbol ==
    (fetch.pc \in {"done", "raised"} /\ fetch.error = "exhausted") =>
        /\ fetch.pc = "done"
        /\ \A pair \in fetch.results : pair.symbol # fetch.failed => pair \in fetch.stored

\* Every iteration of the loop of get_ohlcv comes to an end: the exchange
\* call returns or raises and the sleep is finite.
SpecFetchFair == SpecFetch /\ WF_vars(NextFetch)

\* What the next exchange call of the get_ohlcv call in progress leads to.
C22_NextCall(outcome) ==
    LET step == GetOhlcvStep(fetch.attempt, outcome)
    IN  /\ step.status = "retry" =>
              /\ outcome \in {"network", "timeout"}
              /\ step.slept = fetch.calls + 1
              /\ fetch.calls + 1 < MaxRetries
        /\ outcome \in {"bad_symbol", "exchange", "empty", "invalid_payload"} =>
              (step.status = "raised" /\ step.error \notin {"none", "exhausted"})
        /\ (outcome \in {"network", "timeout"} /\ fetch.calls + 1 = MaxRetries) =>
              (step.status = "raised" /\ step.error = "exhausted")

\* C22: a get_ohlcv call makes at most max_retries exchange calls; it makes
\* another one only after a network or timeout error, having slept
\* retry_delay times the number of failed attempts; an invalid symbol, an
\* exchange error and an empty or invalid payload end it with an error at
\* once; a retryable error on the last attempt ends it with an error; and
\* every call that is started ends.
C22_BoundedRetries ==
    /\ [](/\ fetch.calls <= MaxRetries
          /\ (fetch.pc = "fetching" /\ fetch.queue # <<>>) =>
                /\ fetch.calls < MaxRetries
                /\ \A outcome \in ProviderOutcomes : C22_NextCall(outcome))
    /\ \A n \in 1..(2 * MaxFetchSymbols) :
          (fetch.pc = "fetching" /\ Len(fetch.queue) = n)
              ~> (fetch.pc = "raised" \/ Len(fetch.queue) < n)

\* A call that failed with a retryable error on each of its max_retries
\* attempts and raised.
C22_Witness ==
    /\ fetch.pc = "raised"
    /\ fetch.error = "exhausted"
    /\ fetch.calls = MaxRetries
    /\ fetch.slept = MaxRetries

(***************************************************************************)
(* SpecCache: calls of _get_or_compute_key_levels on one engine, for two    *)
(* symbols and two frames' worth of key levels, while the clock advances.   *)
(***************************************************************************)
MaxClock == 7200

ClockSteps == {KeyLevelsTTL - 1, KeyLevelsTTL}

CacheSymbols == {"BTC/USDT", "ETH/USDT"}

ComputedLevels == {ValueArea, LowsOnly}

InitCache ==
    /\ ScanIdle
    /\ fn = "none"
    /\ args = NoCall
    /\ ret = NoCall

GetKeyLevels ==
    /\ \E symbol \in CacheSymbols, computed \in ComputedLevels :
          /\ fn' = "key_levels"
          /\ args' = [symbol |-> symbol, computed |-> computed]
          /\ ret' = [kind |-> "key_levels",
                     data |-> _get_or_compute_key_levels(key_levels_cache, symbol, computed, now).data]
          /\ key_levels_cache' = _get_or_compute_key_levels(key_levels_cache, symbol, computed, now).cache
    /\ UNCHANGED <<pc, btc_context, remaining, scanned, signals, result, failures, now, fetch>>

Tick ==
    /\ \E elapsed \in ClockSteps :
          /\ now + elapsed <= MaxClock
          /\ now' = now + elapsed
    /\ UNCHANGED <<pc, btc_context, remaining, scanned, signals, result, failures, key_levels_cache, fetch, callVars>>

NextCache == GetKeyLevels \/ Tick

SpecCache == InitCache /\ [][NextCache]_vars

\* C16: a call for a symbol returns the stored map and leaves the cache as it
\* is when the symbol has an entry less than 3600 seconds old; otherwise it
\* returns the levels computed from the supplied candles and replaces the
\* entry, stamped with the current time.  The entries of the other symbols
\* are neither returned nor changed.
C16_CacheTTL ==
    [][(fn' = "key_levels" /\ now' = now) =>
          LET symbol == args'.symbol
              entry == key_levels_cache[symbol]
          IN  /\ IF entry # NoEntry /\ now - entry.timestamp < 3600
                 THEN /\ ret'.data = entry.data
                      /\ key_levels_cache'[symbol] = entry
                 ELSE /\ ret'.data = args'.computed
                      /\ key_levels_cache'[symbol] = [timestamp |-> now, data |-> args'.computed]
              /\ \A other \in Symbols \ {symbol} : key_levels_cache'[other] = key_levels_cache[other]]_vars

\* A call for ETH/USDT at time 7199 that stored the computed levels, while
\* BTC/USDT keeps its entry of time 3600, 3599 seconds old, with other levels.
C16_Witness ==
    /\ fn = "key_levels"
    /\ args.symbol = "ETH/USDT"
    /\ now = 2 * KeyLevelsTTL - 1
    /\ key_levels_cache["ETH/USDT"] = [timestamp |-> now, data |-> args.computed]
    /\ key_levels_cache["BTC/USDT"] # NoEntry
    /\ key_levels_cache["BTC/USDT"].timestamp = KeyLevelsTTL
    /\ key_levels_cache["BTC/USDT"].data # args.computed

(***************************************************************************)
(* SpecDetector: detect_long_setup and detect_short_setup applied to the    *)
(* prepared data of a symbol.                                               *)
(***************************************************************************)
\* Snapshots that pass the structure gate of one direction, over CVD changes
\* around the +-30% thresholds, with and without a volume spike on the last
\* candle, and every divergence, pattern and sweep result.
FlowVolumes == {Volume4, <<100, 100, 100, 200>>, <<50, 100, 50, 200>>, <<0, 0, 0, 0>>}
FlowChanges == {0 - 100, 0 - 40, 0 - 31, 0 - 30, 0 - 10, 0, 10, 29, 30, 31, 40, 100}

FlowData ==
    {[BaseData EXCEPT !.trend_in = t, !.volume = vo, !.cvd = <<first, CvdNaN, Cvd(0), Cvd(change)>>,
                      !.divergence = dv, !.patterns = pa, !.low2 = lo, !.low4 = lo, !.high2 = hi, !.high4 = hi] :
        t \in {Bull(30), Bear(30)}, vo \in FlowVolumes, first \in {Cvd(0), CvdNaN}, change \in FlowChanges,
        dv \in DivergenceResults, pa \in {NoPatterns, Hammer, BearishEngulfing},
        lo \in {9900, 9990}, hi \in {10010, 10100}}

InitDetector ==
    /\ ScanIdle
    /\ fn = "none"
    /\ args \in GateData \cup ScoreData \cup FlowData
    /\ ret = NoCall

DetectSetups ==
    /\ fn = "none"
    /\ fn' = "detect"
    /\ ret' = [kind |-> "detect",
               long_setup |-> detect_long_setup(args, StructureOf(args)),
               short_setup |-> detect_short_setup(args, StructureOf(args))]
    /\ UNCHANGED <<args, scanVars>>

NextDetector == DetectSetups

SpecDetector == InitDetector /\ [][NextDetector]_vars

\* The gates of a direction, from the inputs of the detector.
C17_Gates(d, direction) ==
    LET levels == IF direction = "LONG" THEN d.supports ELSE d.resistances
        level == _find_closest_level(d.price, levels)
        trend == determine_trend(d.trend_in)
        vwap == LastValue(d.vwap)
        pressure == analyze_volume_pressure(d.volume, d.cvd, Lookback)
    IN  /\ level # NaN /\ Abs(d.price - level) * 100 <= level
        /\ IF direction = "LONG"
           THEN /\ trend.trend \in {"ALCISTA", "ALCISTA_FUERTE"}
                /\ trend.structure = "HH/HL"
                /\ vwap # NaN /\ d.price * 1000 >= vwap * 995
                /\ pressure.pressure = "BUYING"
           ELSE /\ trend.trend \in {"BAJISTA", "BAJISTA_FUERTE"}
                /\ trend.structure = "LH/LL"
                /\ vwap # NaN /\ d.price * 1000 <= vwap * 1005
                /\ pressure.pressure = "SELLING"
        /\ pressure.score >= 15

\* The data with other divergence, pattern and sweep inputs.
C17_Variants(d) ==
    {[d EXCEPT !.divergence = dv, !.patterns = pa, !.low2 = lo, !.low4 = lo, !.high2 = hi, !.high4 = hi] :
        dv \in DivergenceResults, pa \in {NoPatterns, Hammer, BearishEngulfing},
        lo \in {9900, 9990}, hi \in {10010, 10100}}

\* C17: the detector returns a setup for a direction exactly when the
\* structure gate (closest level within 1% of the price, trend and structure
\* of the direction, VWAP condition) and the order-flow gate (pressure of the
\* direction with score >= 15) hold, and the divergence, pattern and sweep
\* inputs never change whether a setup is returned.
C17_SetupIffGates ==
    fn = "detect" =>
        /\ (ret.long_setup # NoSetup) <=> C17_Gates(args, "LONG")
        /\ (ret.short_setup # NoSetup) <=> C17_Gates(args, "SHORT")
        /\ \A v \in C17_Variants(args) :
              /\ (detect_long_setup(v, StructureOf(v)) # NoSetup) <=> (ret.long_setup # NoSetup)
              /\ (detect_short_setup(v, StructureOf(v)) # NoSetup) <=> (ret.short_setup # NoSetup)

\* A LONG setup returned with no pattern, no divergence and no sweep.
C17_Witness ==
    /\ fn = "detect"
    /\ ret.long_setup # NoSetup
    /\ ~ ret.long_setup.pattern_valid
    /\ ~ ret.long_setup.liquidity_sweep
    /\ ret.long_setup.divergence = NoDivergence
    /\ ret.short_setup = NoSetup

\* C18: every setup returned has the price within 0.5% of the 1h VWAP, on
\* the side of the direction: at or above it for LONG, at or below it for
\* SHORT.
C18_WithinHalfPercentOfVwap ==
    fn = "detect" =>
        LET vwap == LastValue(args.vwap)
        IN  /\ ret.long_setup # NoSetup =>
                  (vwap # NaN /\ args.price >= vwap /\ (args.price - vwap) * 1000 <= 5 * vwap)
            /\ ret.short_setup # NoSetup =>
                  (vwap # NaN /\ args.price <= vwap /\ (vwap - args.price) * 1000 <= 5 * vwap)

(***************************************************************************)
(* SpecValueArea: the volume profile, its point of control and its value    *)
(* area (key_levels.py).  A profile has one row per price bucket that holds *)
(* at least one candle; args gives the volume accumulated in each bucket    *)
(* (NaN: no candle), or the total volume when all candles share one price.  *)
(***************************************************************************)
Bins == 4
MaxVolume == 2
ProfileMin == 10000
BinWidth == 100
ValueAreaTenths == 7

EmptyProfile == <<>>

RECURSIVE ProfileRows(_, _)
ProfileRows(volumes, idx) ==
    IF idx > Len(volumes) THEN <<>>
    ELSE IF volumes[idx] = NaN THEN ProfileRows(volumes, idx + 1)
    ELSE <<[lower |-> ProfileMin + (idx - 1) * BinWidth,
            upper |-> ProfileMin + idx * BinWidth,
            center |-> ProfileMin + (idx - 1) * BinWidth + BinWidth \div 2,
            volume |-> volumes[idx]]>> \o ProfileRows(volumes, idx + 1)

_build_volume_profile(a) ==
    IF a.collapsed
    THEN <<[lower |-> ProfileMin, upper |-> ProfileMin, center |-> ProfileMin, volume |-> a.total]>>
    ELSE ProfileRows(a.volumes, 1)

\* idxmax: the first row, in center order, of the greatest volume.
calculate_poc(profile) ==
    IF profile = EmptyProfile THEN NaN
    ELSE LET idx == CHOOSE i \in 1..Len(profile) :
                        /\ \A j \in 1..Len(profile) : profile[j].volume <= profile[i].volume
                        /\ \A j \in 1..(i - 1) : profile[j].volume < profile[i].volume
         IN  profile[idx].center

\* sort_values("volume", ascending=False) with the default, unstable sort:
\* rows of equal volume come in any order.
SortedProfiles(profile) ==
    {order \in [1..Len(profile) -> 1..Len(profile)] :
        /\ \A i, j \in 1..Len(profile) : i # j => order[i] # order[j]
        /\ \A i, j \in 1..Len(profile) : i < j => profile[order[i]].volume >= profile[order[j]].volume}

RECURSIVE Accumulated(_, _, _)
Accumulated(profile, order, k) ==
    IF k = 0 THEN 0 ELSE profile[order[k]].volume + Accumulated(profile, order, k - 1)

\* The rows taken by the loop: it stops at the first row where the
\* accumulated volume reaches total_volume * value_area.
SelectedRows(profile, order, total_volume) ==
    LET last == CHOOSE k \in 1..Len(profile) :
                    /\ Accumulated(profile, order, k) * 10 >= total_volume * ValueAreaTenths
                    /\ \A m \in 1..(k - 1) :
                          Accumulated(profile, order, m) * 10 < total_volume * ValueAreaTenths
    IN  {order[k] : k \in 1..last}

NoValueArea == [vah |-> NaN, val |-> NaN]

ValueAreaOf(profile, selected) ==
    [vah |-> CHOOSE u \in {profile[i].upper : i \in selected} :
                 \A i \in selected : profile[i].upper <= u,
     val |-> CHOOSE l \in {profile[i].lower : i \in selected} :
                 \A i \in selected : profile[i].lower >= l]

calculate_value_area(profile, order) ==
    IF profile = EmptyProfile THEN NoValueArea
    ELSE IF Accumulated(profile, order, Len(profile)) <= 0 THEN NoValueArea
    ELSE ValueAreaOf(profile, SelectedRows(profile, order, Accumulated(profile, order, Len(profile))))

BucketVolumes == {NaN} \cup (0..MaxVolume)

InitValueArea ==
    /\ ScanIdle
    /\ fn = "none"
    /\ ret = NoCall
    /\ \/ \E volumes \in [1..Bins -> BucketVolumes] :
             args = [collapsed |-> FALSE, volumes |-> volumes, total |-> 0]
       \/ \E total \in 0..MaxVolume :
             args = [collapsed |-> TRUE, volumes |-> <<>>, total |-> total]

LevelsOf(profile, order) ==
    [kind |-> "levels",
     poc |-> calculate_poc(profile),
     vah |-> calculate_value_area(profile, order).vah,
     val |-> calculate_value_area(profile, order).val]

CalculateLevels ==
    /\ fn = "none"
    /\ fn' = "levels"
    /\ \E order \in SortedProfiles(_build_volume_profile(args)) :
          ret' = LevelsOf(_build_volume_profile(args), order)
    /\ UNCHANGED <<args, scanVars>>

NextValueArea == CalculateLevels

SpecValueArea == InitValueArea /\ [][NextValueArea]_vars

\* C19: for a profile of positive total volume, the value area computed
\* with coverage 0.70 contains the point of control: val <= poc <= vah,
\* also when several buckets tie for the greatest volume and when the
\* profile is a single bucket.
C19_ValueAreaContainsPoc ==
    (fn = "levels" /\ ret.vah # NaN) => (ret.val <= ret.poc /\ ret.poc <= ret.vah)

(***************************************************************************)
(* SpecConfluence: detect_confluences called twice with the same price and  *)
(* the same levels, and two tolerances t1 <= t2 (in thousandths).           *)
(***************************************************************************)
ConfluencePrices == {0 - 10000, 0, 10000, 10020}
ConfluenceTolerances == {0 - 5, 0, 1, 3, 5, 10}

ConfluenceLevelSets ==
    {<<>>,
     <<[name |-> "support", level |-> 10000], [name |-> "poc_weekly", level |-> 10030],
       [name |-> "vah", level |-> 10040], [name |-> "val", level |-> 9960],
       [name |-> "pdh", level |-> 10005], [name |-> "pwh", level |-> 10100]>>,
     <<[name |-> "support", level |-> 9950], [name |-> "ema_50", level |-> NaN],
       [name |-> "pdl", level |-> 0], [name |-> "vwap_session", level |-> 10020]>>,
     <<[name |-> "pwl", level |-> 9000], [name |-> "pwh", level |-> 11000]>>,
     <<[name |-> "poc_daily", level |-> 10010], [name |-> "pdl", level |-> 9990],
       [name |-> "pwl", level |-> 9980]>>}

InitConfluence ==
    /\ ScanIdle
    /\ fn = "none"
    /\ ret = NoCall
    /\ \E price \in ConfluencePrices, levels \in ConfluenceLevelSets, t1, t2 \in ConfluenceTolerances :
          /\ t1 <= t2
          /\ args = [price |-> price, levels |-> levels, t1 |-> t1, t2 |-> t2]

DetectConfluences ==
    /\ fn = "none"
    /\ fn' = "detect_confluences"
    /\ ret' = [kind |-> "confluences",
               low |-> detect_confluences(args.price, args.levels, args.t1),
               high |-> detect_confluences(args.price, args.levels, args.t2)]
    /\ UNCHANGED <<args, scanVars>>

NextConfluence == DetectConfluences

SpecConfluence == InitConfluence /\ [][NextConfluence]_vars

\* C20: for the same price and the same levels, with tolerances t1 <= t2,
\* the count at t1 is at most the count at t2 and every level counted at t1
\* is counted at t2.
C20_CountMonotone ==
    fn = "detect_confluences" =>
        /\ ret.low.count <= ret.high.count
        /\ \A i \in 1..Len(ret.low.levels) :
              \E j \in 1..Len(ret.high.levels) : ret.high.levels[j] = ret.low.levels[i]

\* A positive price with some levels counted at t1 and more at t2 > t1.
C20_Witness ==
    /\ fn = "detect_confluences"
    /\ args.price > 0
    /\ args.t1 < args.t2
    /\ 0 < ret.low.count
    /\ ret.low.count < ret.high.count

(***************************************************************************)
(* SpecStamp: the two clock readings of _create_signal.  A datetime is      *)
(* [seconds, microsecond]; args holds the UTC clock, which moves on between *)
(* any two readings by some number of microseconds, possibly none.  One     *)
(* Signal is built in a behaviour.                                          *)
(***************************************************************************)
MaxElapsed == 2
MaxStampSeconds == 3

AddMicroseconds(dt, us) ==
    [seconds |-> dt.seconds + (dt.microsecond + us) \div 1000000,
     microsecond |-> (dt.microsecond + us) % 1000000]

\* datetime + timedelta(hours=hours)
AddHours(dt, hours) == [dt EXCEPT !.seconds = @ + hours * 3600]

InitStamp ==
    /\ ScanIdle
    /\ fn = "none"
    /\ ret = NoCall
    /\ \E s \in {0, 1}, us \in {0, 1, 499999, 999998, 999999} :
          args = [seconds |-> s, microsecond |-> us]

\* timestamp=datetime.utcnow(), valid_until=datetime.utcnow() + timedelta(hours=1)
StampSignal ==
    /\ fn = "none"
    /\ \E elapsed \in 0..MaxElapsed :
          /\ args' = AddMicroseconds(args, elapsed)
          /\ ret' = [kind |-> "signal_times",
                     timestamp |-> args,
                     valid_until |-> AddHours(AddMicroseconds(args, elapsed), 1)]
    /\ fn' = "_create_signal"
    /\ UNCHANGED scanVars

\* Half a second passes before the Signal is built.
ClockTick ==
    /\ fn = "none"
    /\ args.seconds < MaxStampSeconds
    /\ args' = AddMicroseconds(args, 500000)
    /\ UNCHANGED <<fn, ret, scanVars>>

NextStamp == StampSignal \/ ClockTick

SpecStamp == InitStamp /\ [][NextStamp]_vars

\* C21: the valid_until of a Signal is exactly one hour after the timestamp
\* of the same Signal.
C21_ValidUntilOneHourLater ==
    fn = "_create_signal" => ret.valid_until = AddHours(ret.timestamp, 1)

(***************************************************************************)
(* SpecCluster: MarketStructure._cluster_levels applied to two orderings of *)
(* the same swing prices (the NaN rows are dropped by the caller).  A zone  *)
(* is [total, touches]: its price is the mean total / touches of the prices *)
(* registered in it.  The tolerance is in thousandths.                      *)
(***************************************************************************)
MaxSwings == 3
ZoneTolerance == 5

SwingPrices == {10000, 10040, 10080, 10200}

InsertAscending(sorted, value) ==
    LET k == Cardinality({i \in 1..Len(sorted) : sorted[i] <= value})
    IN  SubSeq(sorted, 1, k) \o <<value>> \o SubSeq(sorted, k + 1, Len(sorted))

\* The swing prices in the order they are presented.
Mutant_SortedPrices(prices) == prices

\* sorted(prices)
RECURSIVE SortedPrices(_)
SortedPrices(prices) ==
    IF prices = <<>> THEN <<>>
    ELSE InsertAscending(SortedPrices(SubSeq(prices, 1, Len(prices) - 1)), Last(prices))

\* abs(value - level.price) / max(level.price, 1e-8) <= tolerance
ZoneMatches(level, value, tolerance) ==
    Abs(value * level.touches - level.total) * 1000 <= tolerance * level.total

\* The inner loop: the first zone that matches registers the value,
\* otherwise a new zone is appended.
RegisterValue(levels, value, tolerance) ==
    IF \E i \in 1..Len(levels) : ZoneMatches(levels[i], value, tolerance)
    THEN LET first == CHOOSE i \in 1..Len(levels) :
                          /\ ZoneMatches(levels[i], value, tolerance)
                          /\ \A j \in 1..(i - 1) : ~ ZoneMatches(levels[j], value, tolerance)
         IN  [levels EXCEPT ![first] = [total |-> @.total + value, touches |-> @.touches + 1]]
    ELSE Append(levels, [total |-> value, touches |-> 1])

RECURSIVE ClusterLoop(_, _, _)
ClusterLoop(values, k, tolerance) ==
    IF k = 0 THEN <<>>
    ELSE RegisterValue(ClusterLoop(values, k - 1, tolerance), values[k], tolerance)

_cluster_levels(prices, tolerance) ==
    ClusterLoop(SortedPrices(prices), Len(prices), tolerance)

Reordered(prices, order) == [i \in 1..Len(prices) |-> prices[order[i]]]

Orderings(n) == {order \in [1..n -> 1..n] : \A i, j \in 1..n : i # j => order[i] # order[j]}

InitCluster ==
    /\ ScanIdle
    /\ fn = "none"
    /\ ret = NoCall
    /\ \E n \in 0..MaxSwings :
          \E prices \in [1..n -> SwingPrices], order \in Orderings(n) :
              args = [first |-> prices, second |-> Reordered(prices, order)]

ClusterLevels ==
    /\ fn = "none"
    /\ fn' = "_cluster_levels"
    /\ ret' = [kind |-> "zones",
               first |-> _cluster_levels(args.first, ZoneTolerance),
               second |-> _cluster_levels(args.second, ZoneTolerance)]
    /\ UNCHANGED <<args, scanVars>>

NextCluster == ClusterLevels

SpecCluster == InitCluster /\ [][NextCluster]_vars

\* C23 as stated: there are two orderings of the same swing prices for
\* which the zones (their prices or their touch counts) differ.
C23_Original ==
    fn = "_cluster_levels" =>
        \E n \in 0..MaxSwings :
            \E prices \in [1..n -> SwingPrices], order \in Orderings(n) :
                _cluster_levels(prices, ZoneTolerance)
                    # _cluster_levels(Reordered(prices, order), ZoneTolerance)

\* C23, corrected: the swing prices are sorted in ascending order before
\* they are clustered, so every two orderings of the same swing prices give
\* the same zones, with the same prices and touch counts.
C23_OrderInsensitive ==
    fn = "_cluster_levels" => ret.first = ret.second

\* Two different orderings of three swing prices, clustered into a zone of
\* two touches and a zone of one.
C23_Witness ==
    /\ fn = "_cluster_levels"
    /\ args.first # args.second
    /\ args.first # SortedPrices(args.first)
    /\ Len(ret.first) = 2
    /\ \E i \in 1..2 : ret.first[i].touches = 2 /\ ret.first[i].total % 2 = 0
                        /\ ret.first[i].total \div 2 \notin SwingPrices

(***************************************************************************)
(* SpecTrend: analyze_btc_context on BTC frames whose trend comes from      *)
(* determine_trend, over the ADX values around its thresholds and those of  *)
(* the gate.                                                                *)
(***************************************************************************)
AdxValues == {0, 10, 19, 20, 24, 25, 34, 35, 50, 100}

InitTrend ==
    /\ ScanIdle
    /\ fn = "none"
    /\ ret = NoCall
    /\ \E adx \in AdxValues, a \in {CalmAtr, SpikeAtr, QuietAtr}, h \in {3, 14} :
          \E t \in {Bull(adx), Bear(adx), Flat(adx)} :
              args = [empty4h |-> FALSE, empty1h |-> FALSE, trend_in |-> t, atr |-> a, hour |-> h]

AnalyzeTrend ==
    /\ fn = "none"
    /\ fn' = "analyze_btc_context"
    /\ ret' = analyze_btc_context(args)
    /\ UNCHANGED <<args, scanVars>>

NextTrend == AnalyzeTrend

SpecTrend == InitTrend /\ [][NextTrend]_vars

\* C24: with the BTC trend given by determine_trend, a LATERAL trend has
\* trend_strength < 20, and should_trade implies that the trend is
\* ALCISTA_FUERTE or BAJISTA_FUERTE, so the gate of the scan opens on no
\* LATERAL and no INESTABLE context.
C24_OpenGateIsStrongTrend ==
    fn = "analyze_btc_context" =>
        /\ ret.trend = "LATERAL" => ret.trend_strength < 20
        /\ ret.should_trade => ret.trend \in {"ALCISTA_FUERTE", "BAJISTA_FUERTE"}
        /\ GateOpen(ret) => ret.trend \notin {"LATERAL", "INESTABLE"}

\* An open gate on an ADX of 25, the least that determine_trend calls a
\* strong trend.
C24_Witness ==
    /\ fn = "analyze_btc_context"
    /\ ret.should_trade
    /\ GateOpen(ret)
    /\ ret.trend = "BAJISTA_FUERTE"
    /\ ret.trend_strength = 25

\* C25: for one symbol the long and the short detector never both return
\* a setup, so the loop body appends at most one Signal for the symbol.
C25_OneDirectionPerSymbol ==
    fn = "scan_symbol" =>
        /\ ~ (ret.long_setup # NoSetup /\ ret.short_setup # NoSetup)
        /\ Len(ret.setups) <= 1
        /\ Len(ret.signals) <= 1

\* A symbol with a SHORT Signal and no long setup.
C25_Witness ==
    /\ fn = "scan_symbol"
    /\ ret.long_setup = NoSetup
    /\ ret.short_setup # NoSetup
    /\ Len(ret.signals) = 1
    /\ ret.signals[1].direction = "SHORT"

\* The number of the last `lookback` 1h candles that have a CVD value.
C27_ValidCvd(cvd, lookback) ==
    Cardinality({i \in 1..Len(TailN(cvd, lookback)) : ~ TailN(cvd, lookback)[i].nan})

C29_ScoreByPressure ==
    fn = "detect" =>
        /\ analyze_volume_pressure(args.volume, args.cvd, Lookback).pressure \in {"BUYING", "SELLING"} =>
              analyze_volume_pressure(args.volume, args.cvd, Lookback).score = 20
        /\ analyze_volume_pressure(args.volume, args.cvd, Lookback).pressure = "NEUTRAL" =>
              analyze_volume_pressure(args.volume, args.cvd, Lookback).score <= 11
        /\ analyze_volume_pressure(args.volume, args.cvd, Lookback).score >= 15 <=>
              analyze_volume_pressure(args.volume, args.cvd, Lookback).pressure # "NEUTRAL"
        /\ ret.long_setup # NoSetup => (40 <= ret.long_setup.base_score /\ ret.long_setup.base_score <= 75)
        /\ ret.short_setup # NoSetup => (40 <= ret.short_setup.base_score /\ ret.short_setup.base_score <= 75)

\* A LONG setup with every bonus: strong bullish divergence, a bullish
\* pattern and a sweep of the support.
C29_Witness ==
    /\ fn = "detect"
    /\ analyze_volume_pressure(args.volume, args.cvd, Lookback).pressure = "BUYING"
    /\ ret.long_setup # NoSetup
    /\ ret.long_setup.base_score = 75

(***************************************************************************)
(* SpecCvd: CVDCalculator.calculate_cvd_for_candles over a gap-free run of  *)
(* candles.  The exchange holds a tape of trades in time order, each        *)
(* [timestamp, id]; fetch_trades(since, limit) returns the first `limit`    *)
(* trades of the tape with timestamp >= since.  Times are in milliseconds   *)
(* from the start of the first candle, a candle being CandleWidth long and  *)
(* a page PageLimit trades (1000 in the code).                              *)
(***************************************************************************)
MaxTrades == 3
MaxCandles == 2
CandleWidth == 4
PageLimit == 2

TradeTimes == {0, 1, CandleWidth - 1, CandleWidth, CandleWidth + 1, 2 * CandleWidth}

Tapes ==
    {tape \in UNION {[1..n -> TradeTimes] : n \in 0..MaxTrades} :
        \A i \in 1..(Len(tape) - 1) : tape[i] <= tape[i + 1]}

TradesOf(tape) == [i \in 1..Len(tape) |-> [timestamp |-> tape[i], id |-> i]]

\* exchange.fetch_trades(symbol, since, limit)
fetch_trades(trades, since, limit) ==
    LET from == SelectSeq(trades, LAMBDA tr : tr.timestamp >= since)
    IN  SubSeq(from, 1, Min(limit, Len(from)))

\* The while loop of fetch_trades_for_timerange: a trade is dropped only if
\* its timestamp is greater than end_ms.
RECURSIVE FetchLoop(_, _, _, _)
FetchLoop(trades, current_since, end_ms, all_trades) ==
    IF ~ (current_since < end_ms) THEN all_trades
    ELSE LET page == fetch_trades(trades, current_since, PageLimit)
             kept == SelectSeq(page, LAMBDA tr : ~ (tr.timestamp > end_ms))
         IN  IF page = <<>> THEN all_trades
             ELSE IF Len(page) < PageLimit THEN all_trades \o kept
             ELSE FetchLoop(trades, page[Len(page)].timestamp + 1, end_ms, all_trades \o kept)

fetch_trades_for_timerange(trades, start_ms, end_ms) ==
    IF start_ms >= end_ms THEN <<>> ELSE FetchLoop(trades, start_ms, end_ms, <<>>)

\* One entry per candle: the trades fetched for [candle_start, candle_end].
calculate_cvd_for_candles(trades, candles) ==
    [c \in 1..candles |->
        fetch_trades_for_timerange(trades, (c - 1) * CandleWidth, c * CandleWidth)]

InitCvd ==
    /\ ScanIdle
    /\ fn = "none"
    /\ ret = NoCall
    /\ \E tape \in Tapes, candles \in 1..MaxCandles :
          args = [trades |-> TradesOf(tape), candles |-> candles]

CalculateCvd ==
    /\ fn = "none"
    /\ fn' = "calculate_cvd_for_candles"
    /\ ret' = [kind |-> "cvd", periods |-> calculate_cvd_for_candles(args.trades, args.candles)]
    /\ UNCHANGED <<args, scanVars>>

NextCvd == CalculateCvd

SpecCvd == InitCvd /\ [][NextCvd]_vars

\* C30: over a gap-free run of candles every trade is counted in the period
\* CVD of at most one candle, also a trade whose timestamp is the boundary
\* between two consecutive candles.
C30_TradeCountedOnce ==
    fn = "calculate_cvd_for_candles" =>
        \A i \in 1..Len(args.trades) :
            Cardinality({c \in 1..args.candles :
                            \E k \in 1..Len(ret.periods[c]) : ret.periods[c][k].id = i}) <= 1

IsPrefix(a, b) == Len(a) <= Len(b) /\ SubSeq(b, 1, Len(a)) = a

\* C13: a failure while constructing the Signal of one setup does not abort
\* the scan: every step of the symbol loop keeps the signals accepted so far,
\* moves on to the next symbol, and the scan ends only after the last symbol,
\* returning the ranked list.
C13_FailureIsolated ==
    [][pc = "symbols" =>
          /\ pc' \in {"symbols", "done"}
          /\ IsPrefix(signals, signals')
          /\ remaining > 0 => (remaining' = remaining - 1 /\ Len(scanned') = Len(scanned) + 1)
          /\ pc' = "done" => (/\ remaining = 0
                              /\ signals' = signals
                              /\ result' = TopSignals(SortByScore(signals)))]_vars

\* A scan of 3 symbols in which the construction for the second symbol
\* raised, and which accepted a signal before it and one after it and
\* returned both.
C13_Witness ==
    /\ pc = "done"
    /\ Len(scanned) = 3
    /\ failures = <<2>>
    /\ Len(signals) = 2
    /\ Len(result) = 2

\* C14: a scanned symbol whose 4h or 1h data is empty is skipped: no signal
\* is accepted, the key-levels cache is not written, nothing is raised and
\* the loop goes on; a scan whose BTC data is empty returns an empty list.
C14_EmptyDataSkipped ==
    [][/\ (pc = "symbols" /\ Len(scanned') = Len(scanned) + 1 /\ Last(scanned').skipped) =>
              (/\ signals' = signals
               /\ key_levels_cache' = key_levels_cache
               /\ failures' = failures
               /\ pc' = "symbols"
               /\ remaining' = remaining - 1)
       /\ (pc = "idle" /\ pc' # "idle" /\ btc_context' = NoContext) =>
              (pc' = "done" /\ result' = <<>> /\ scanned' = <<>>)]_vars

\* A scan that skipped its first symbol for empty data and accepted a signal
\* for a later one.
C14_Witness ==
    /\ pc = "done"
    /\ Len(scanned) >= 2
    /\ scanned[1].skipped
    /\ Len(result) >= 1

\* C28: a scan writes nothing but the key-levels cache, and in the cache
\* only the entry of the symbol it is scanning, when that symbol has 4h and
\* 1h data; after such a symbol is scanned its entry exists, whether or not
\* a setup was found; a scan that ends on missing BTC data or on a closed
\* gate leaves the cache as it was.
C28_OnlyCacheWritten ==
    [][/\ fetch' = fetch
       /\ \A symbol \in Symbols :
             key_levels_cache'[symbol] # key_levels_cache[symbol] =>
                 /\ pc = "symbols"
                 /\ Len(scanned') = Len(scanned) + 1
                 /\ Last(scanned') = [symbol |-> symbol, skipped |-> FALSE]
       /\ (pc = "symbols" /\ Len(scanned') = Len(scanned) + 1 /\ ~ Last(scanned').skipped) =>
             key_levels_cache'[Last(scanned').symbol] # NoEntry
       /\ (pc = "idle" /\ pc' = "done") => key_levels_cache' = key_levels_cache]_vars

\* A finished scan that found no signal, wrote the entry of a symbol it
\* scanned and none for a symbol it skipped for empty data.
C28_Witness ==
    /\ pc = "done"
    /\ signals = <<>>
    /\ failures = <<>>
    /\ \E i \in 1..Len(scanned) :
          ~ scanned[i].skipped /\ key_levels_cache[scanned[i].symbol] # NoEntry
    /\ \E j \in 1..Len(scanned) :
          scanned[j].skipped /\ key_levels_cache[scanned[j].symbol] = NoEntry

(***************************************************************************)
(* SpecRaise: the scan when a step of the symbol loop outside the try block *)
(* raises: loading or preparing the frames, the swing, zone and trend       *)
(* analysis, the CVD loading and the detection ("analysis", before the key  *)
(* levels are fetched), or the sweep test and the scoring ("scoring", after *)
(* them).  fn records that the exception was raised.                        *)
(***************************************************************************)
MaxRaiseSymbols == 2

\* The except clause of the loop catching the exceptions of every step.
Mutant_PcAfterAnalysisError == "symbols"

\* No except clause encloses these steps: the exception leaves
\* scan_for_signals.
PcAfterAnalysisError == "raised"

StartRaiseScan == StartScanOf(MaxRaiseSymbols)

AnalysisRaises ==
    /\ pc = "symbols"
    /\ remaining > 0
    /\ \E symbol \in Symbols, d \in ScanData, stage \in {"analysis", "scoring"} :
          /\ Consistent(symbol, d, btc_context)
          /\ stage = "scoring" => ~ InsufficientData(d)
          /\ now' = now + SecondsPerSymbol
          /\ scanned' = Append(scanned, [symbol |-> symbol, skipped |-> FALSE])
          /\ key_levels_cache' =
                IF stage = "scoring"
                THEN _get_or_compute_key_levels(key_levels_cache, symbol, d.key_levels, now').cache
                ELSE key_levels_cache
    /\ pc' = PcAfterAnalysisError
    /\ fn' = "analysis_error"
    /\ remaining' = remaining - 1
    /\ UNCHANGED <<btc_context, signals, result, failures, fetch, args, ret>>

NextRaise == StartRaiseScan \/ ScanSymbol \/ AnalysisRaises \/ Finish

SpecRaise == Init /\ [][NextRaise]_vars

\* C26: an exception raised for a symbol outside the construction of the
\* Signal is not isolated: the scan ends there with the exception, it never
\* returns a list, and the signals accepted for the earlier symbols are
\* never returned.
C26_AnalysisErrorPropagates ==
    /\ [](fn = "analysis_error" => (pc = "raised" /\ result = <<>>))
    /\ [][pc = "raised" => UNCHANGED vars]_vars

\* A scan that accepted a signal for its first symbol and raised on the
\* second.
C26_Witness ==
    /\ pc = "raised"
    /\ fn = "analysis_error"
    /\ Len(scanned) = 2
    /\ Len(signals) = 1
    /\ result = <<>>

(***************************************************************************)
(* SpecBonus: the session and correlation bonuses of the scorer applied to  *)
(* every symbol, BTC trend label, session quality and direction.            *)
(***************************************************************************)
BonusSymbols == Symbols \cup {"btc/usdt", "BTC/USDC", "BTCUSDT", "WBTC/USDT", "eth/usdt"}

InitBonus ==
    /\ ScanIdle
    /\ fn = "none"
    /\ args \in [symbol : BonusSymbols, trend : TrendLabels, session : SessionQualities, direction : {"LONG", "SHORT"}]
    /\ ret = NoCall

ApplyBonuses ==
    /\ fn = "none"
    /\ fn' = "bonuses"
    /\ LET btc == [NoContext EXCEPT !.trend = args.trend, !.session_quality = args.session]
       IN  ret' = [kind |-> "bonuses",
                   session_bonus |-> _calculate_session_bonus(btc.session_quality),
                   correlation_bonus |-> _calculate_correlation_bonus(args.symbol, btc, args.direction)]
    /\ UNCHANGED <<args, scanVars>>

NextBonus == ApplyBonuses

SpecBonus == InitBonus /\ [][NextBonus]_vars

\* C12: the correlation bonus is 0 for every symbol that starts with BTC; for
\* any other symbol it is +10 when the direction agrees with the BTC trend
\* (LONG with ALCISTA, SHORT with BAJISTA), -15 when it conflicts, and 0 when
\* the BTC trend is LATERAL or INESTABLE.
C12_CorrelationBonus ==
    fn = "bonuses" =>
        LET bullish == args.trend \in {"ALCISTA", "ALCISTA_FUERTE"}
            bearish == args.trend \in {"BAJISTA", "BAJISTA_FUERTE"}
            agrees == (bullish /\ args.direction = "LONG") \/ (bearish /\ args.direction = "SHORT")
        IN  ret.correlation_bonus =
                IF args.symbol \in {"BTC/USDT", "btc/usdt", "BTC/USDC", "BTCUSDT"} THEN 0
                ELSE IF args.trend \in {"LATERAL", "INESTABLE"} THEN 0
                ELSE IF agrees THEN 10
                ELSE 0 - 15

\* A SHORT on a non-BTC symbol against a bullish BTC: -15; the same inputs
\* exist for BTC/USDT, where the bonus is 0.
C12_Witness ==
    /\ fn = "bonuses"
    /\ args.symbol = "SOL/USDT" /\ args.trend = "ALCISTA_FUERTE" /\ args.direction = "SHORT"
    /\ ret.correlation_bonus = 0 - 15

\* C11: for every setup the detector returned, the order_flow component of
\* the score equals the detector's order-flow score capped at 20 (hence at
\* least 15), and the patterns component is 10 when a pattern of the
\* direction was found and 0 otherwise.
C11_ComponentsFromDetector ==
    fn = "scan_symbol" =>
        \A i \in 1..Len(ret.setups) :
            /\ ret.scores[i].base_components.order_flow
                  = Min(analyze_volume_pressure(args.d.volume, args.d.cvd, Lookback).score, 20)
            /\ ret.scores[i].base_components.order_flow >= 15
            /\ ret.scores[i].base_components.patterns = (IF ret.setups[i].pattern_valid THEN 10 ELSE 0)

\* C3: should_trade is False exactly when trend = INESTABLE, or volatility =
\* ALTA and trend_strength < 35, or trend = LATERAL and trend_strength < 20.
C3_ShouldTradeDecision ==
    fn = "btc_filter" =>
        (ret.should_trade = FALSE <=>
            \/ args.trend = "INESTABLE"
            \/ (args.volatility = "ALTA" /\ args.trend_strength < 35)
            \/ (args.trend = "LATERAL" /\ args.trend_strength < 20))

\* A LATERAL trend of strength below 20 under NORMAL volatility was decided.
C3_Witness ==
    /\ fn = "btc_filter"
    /\ args.trend = "LATERAL"
    /\ args.volatility = "NORMAL"
    /\ args.trend_strength = 19
    /\ ret.should_trade = FALSE

\* C4: the BTC multipliers are mirrored between bullish and bearish trends:
\* under NORMAL volatility BAJISTA_FUERTE gives long 0.3 / short 1.2 and a
\* non-strong BAJISTA gives long 0.4 / short 1.0.
C4_MirroredMultipliers ==
    (fn = "btc_filter" /\ args.volatility = "NORMAL") =>
        /\ args.trend = "BAJISTA_FUERTE" => (ret.multipliers.long = 30 /\ ret.multipliers.short = 120)
        /\ args.trend = "BAJISTA" => (ret.multipliers.long = 40 /\ ret.multipliers.short = 100)

\* C5: both multipliers lie in [0.2, 1.2]; under NORMAL volatility
\* ALCISTA_FUERTE gives 1.2 / 0.3, LATERAL 0.7 / 0.7 and INESTABLE 0.2 / 0.2;
\* under ALTA each value is half the NORMAL one, floored at 0.2; under BAJA
\* each value is 1.1 times the NORMAL one, capped at 1.2.
C5_MultiplierRange ==
    fn = "btc_filter" =>
        LET m == ret.multipliers
            n == _calculate_multipliers(args.trend, "NORMAL")
        IN  /\ 20 <= m.long /\ m.long <= 120
            /\ 20 <= m.short /\ m.short <= 120
            /\ (args.volatility = "NORMAL" /\ args.trend = "ALCISTA_FUERTE") => (m.long = 120 /\ m.short = 30)
            /\ (args.volatility = "NORMAL" /\ args.trend = "LATERAL") => (m.long = 70 /\ m.short = 70)
            /\ (args.volatility = "NORMAL" /\ args.trend = "INESTABLE") => (m.long = 20 /\ m.short = 20)
            /\ args.volatility = "ALTA" => (2 * m.long = Max(40, n.long) /\ 2 * m.short = Max(40, n.short))
            /\ args.volatility = "BAJA" => (10 * m.long = Min(1200, 11 * n.long) /\ 10 * m.short = Min(1200, 11 * n.short))

\* ALCISTA_FUERTE under ALTA volatility: the short multiplier 0.3 halves to
\* 0.15 and is floored at 0.2.
C5_Witness ==
    /\ fn = "btc_filter"
    /\ args.trend = "ALCISTA_FUERTE"
    /\ args.volatility = "ALTA"
    /\ ret.multipliers.long = 60
    /\ ret.multipliers.short = 20

====
